---- MODULE Spec2Model ----
(***************************************************************************)
(* A model of the kernel-crate loader of nano_core's mod_mgmt module:      *)
(* parse_elf_kernel_crate, with the object file, the symbol map and the    *)
(* memory subsystem it works on.                                           *)
(***************************************************************************)
EXTENDS Integers, Sequences, FiniteSets, TLC

(***************************************************************************)
(* Bounds of the model.                                                    *)
(***************************************************************************)
\* content sections of an object (besides the null section and .symtab)
MaxSecs == 2
\* entries of a relocation section
MaxEntries == 2

(***************************************************************************)
(* Program constants.                                                      *)
(***************************************************************************)
PAGE_SIZE == 4096
\* bytes of a usize / u64, and of a u32
UsizeBytes == 8
U32Bytes == 4

\* special section indices (xmas_elf::sections)
SHN_UNDEF == 0
SHN_LORESERVE == 65280
SHN_HIPROC == 65311
SHN_LOOS == 65312
SHN_HIOS == 65343
SHN_ABS == 65521
SHN_COMMON == 65522
SHN_XINDEX == 65535
\* SHN_LOPROC and SHN_HIRESERVE are the same numbers as two of the above
SHN_LOPROC == SHN_LORESERVE
SHN_HIRESERVE == SHN_XINDEX

\* relocation types (goblin::elf::reloc)
R_X86_64_64 == 1
R_X86_64_PC32 == 2
R_X86_64_GOTPCREL == 9
R_X86_64_32 == 10
R_X86_64_PC64 == 24

(***************************************************************************)
(* usize arithmetic.  A usize is its 8 little-endian bytes, so that        *)
(* wrapping and truncation are exact.                                      *)
(***************************************************************************)
Pow256 == <<1, 256, 65536, 16777216>>

\* the usize of a small natural number (below 2^31)
Usize(n) == [k \in 1..UsizeBytes |-> IF k > 4 THEN 0 ELSE (n \div Pow256[k]) % 256]

RECURSIVE CarryInto(_, _, _)
CarryInto(a, b, k) ==
    IF k = 1 THEN 0 ELSE (a[k-1] + b[k-1] + CarryInto(a, b, k-1)) \div 256

wrapping_add(a, b) ==
    [k \in 1..UsizeBytes |-> (a[k] + b[k] + CarryInto(a, b, k)) % 256]

wrapping_sub(a, b) ==
    wrapping_add(a, wrapping_add([k \in 1..UsizeBytes |-> 255 - b[k]], Usize(1)))

\* `x as u32`: the low four bytes
as_u32(a) == [k \in 1..U32Bytes |-> a[k]]

\* `x as u64` of a usize: all eight bytes
as_u64(a) == [k \in 1..UsizeBytes |-> a[k]]

(***************************************************************************)
(* Strings are sequences of characters.                                    *)
(***************************************************************************)
starts_with(s, p) == Len(s) >= Len(p) /\ SubSeq(s, 1, Len(p)) = p

\* s.get(n ..) for n <= Len(s)
StrFrom(s, n) == SubSeq(s, n + 1, Len(s))

KERNEL_MODULE_NAME_PREFIX == <<"_", "_", "k", "_">>
TEXT_PREFIX == <<".", "t", "e", "x", "t", ".">>
RODATA_PREFIX == <<".", "r", "o", "d", "a", "t", "a", ".">>
DATA_PREFIX == <<".", "d", "a", "t", "a", ".">>
BSS_PREFIX == <<".", "b", "s", "s", ".">>
NOTE_PREFIX == <<".", "n", "o", "t", "e">>
GCC_PREFIX == <<".", "g", "c", "c">>
DEBUG_PREFIX == <<".", "d", "e", "b", "u", "g">>
BARE_TEXT == <<".", "t", "e", "x", "t">>
RELA_EH_FRAME == <<".", "r", "e", "l", "a", ".", "e", "h", "_", "f", "r", "a", "m", "e">>
RELA_NOTE == <<".", "r", "e", "l", "a", ".", "n", "o", "t", "e">>
RELA_GCC == <<".", "r", "e", "l", "a", ".", "g", "c", "c">>
RELA_DEBUG == <<".", "r", "e", "l", "a", ".", "d", "e", "b", "u", "g">>

(***************************************************************************)
(* rustc_demangle, for the legacy mangling _ZN<len><ident>...E with        *)
(* one-digit lengths: the two renderings demangle_symbol formats.          *)
(***************************************************************************)
DigitChars == <<"0", "1", "2", "3", "4", "5", "6", "7", "8", "9">>
HexChars == {"0", "1", "2", "3", "4", "5", "6", "7", "8", "9",
             "a", "b", "c", "d", "e", "f"}
IsDigit(c) == \E d \in 1..Len(DigitChars) : DigitChars[d] = c
DigitVal(c) == (CHOOSE d \in 1..Len(DigitChars) : DigitChars[d] = c) - 1

RECURSIVE ValidElems(_)
ValidElems(t) ==
    \/ t = <<>>
    \/ /\ IsDigit(t[1])
       /\ DigitVal(t[1]) >= 1
       /\ Len(t) >= 1 + DigitVal(t[1])
       /\ ValidElems(StrFrom(t, 1 + DigitVal(t[1])))

RECURSIVE Elems(_)
Elems(t) ==
    IF t = <<>> THEN <<>>
    ELSE <<SubSeq(t, 2, 1 + DigitVal(t[1]))>> \o Elems(StrFrom(t, 1 + DigitVal(t[1])))

MangledInner(s) == SubSeq(s, 4, Len(s) - 1)

IsMangled(s) ==
    /\ Len(s) >= 5
    /\ starts_with(s, <<"_", "Z", "N">>)
    /\ s[Len(s)] = "E"
    /\ ValidElems(MangledInner(s))

is_rust_hash(e) ==
    /\ Len(e) >= 1
    /\ e[1] = "h"
    /\ \A k \in 2..Len(e) : e[k] \in HexChars

RECURSIVE JoinElems(_, _, _)
JoinElems(es, k, alternate) ==
    IF k > Len(es) THEN <<>>
    ELSE IF alternate /\ k = Len(es) /\ is_rust_hash(es[k]) THEN <<>>
    ELSE (IF k = 1 THEN <<>> ELSE <<":", ":">>) \o es[k] \o JoinElems(es, k + 1, alternate)

\* format!("{}", demangle(s)) and, with alternate, format!("{:#}", demangle(s))
Render(s, alternate) ==
    IF IsMangled(s) THEN JoinElems(Elems(MangledInner(s)), 1, alternate) ELSE s

\* str::find: the byte index of the first occurrence, or -1 for None
StrFind(hay, needle) ==
    LET hits == {k \in 0..(Len(hay) - Len(needle)) :
                    SubSeq(hay, k + 1, k + Len(needle)) = needle}
    IN IF hits = {} THEN -1 ELSE CHOOSE k \in hits : \A m \in hits : k <= m

NoneStr == <<"<None>">>

demangle_symbol(s) ==
    LET without_hash == Render(s, TRUE)
        with_hash == Render(s, FALSE)
        index == StrFind(with_hash, without_hash)
        hash_start == index + 2 + Len(without_hash)
        hash_only == IF index = -1 \/ hash_start > Len(with_hash)
                     THEN NoneStr
                     ELSE StrFrom(with_hash, hash_start)
    IN [full |-> without_hash, hash |-> hash_only]

(***************************************************************************)
(* The object file, as xmas_elf presents it: section headers (index 0 is   *)
(* the null section), the symbol table and the relocation entries.         *)
(***************************************************************************)
SHF_WRITE == "SHF_WRITE"
SHF_ALLOC == "SHF_ALLOC"
SHF_EXECINSTR == "SHF_EXECINSTR"

Sec(typ, name, flags, size, align) ==
    [typ |-> typ, name |-> name, flags |-> flags, size |-> size, align |-> align,
     info |-> 0, entries |-> <<>>]

NullSec == Sec("Null", <<>>, {}, 0, 0)
SymTabSec == Sec("SymTab", <<".", "s", "y", "m", "t", "a", "b">>, {}, 48, 8)

\* .text.foo, the mangled .text._ZN3bar2h1E, and the zero-size marker .text.z
TextFoo == Sec("ProgBits", TEXT_PREFIX \o <<"f", "o", "o">>,
               {SHF_ALLOC, SHF_EXECINSTR}, 16, 16)
TextBar == Sec("ProgBits", TEXT_PREFIX \o <<"_", "Z", "N", "3", "b", "a", "r", "2", "h", "1", "E">>,
               {SHF_ALLOC, SHF_EXECINSTR}, 24, 16)
TextZero == Sec("ProgBits", TEXT_PREFIX \o <<"z">>, {SHF_ALLOC, SHF_EXECINSTR}, 0, 1)
TextPage == Sec("ProgBits", TEXT_PREFIX \o <<"p", "g">>,
                {SHF_ALLOC, SHF_EXECINSTR}, PAGE_SIZE, 16)
TextWritable == Sec("ProgBits", TEXT_PREFIX \o <<"w">>,
                    {SHF_ALLOC, SHF_WRITE, SHF_EXECINSTR}, 8, 8)
RodataR == Sec("ProgBits", RODATA_PREFIX \o <<"r">>, {SHF_ALLOC}, 8, 8)
DataD == Sec("ProgBits", DATA_PREFIX \o <<"d">>, {SHF_ALLOC, SHF_WRITE}, 12, 8)
BssB == Sec("NoBits", BSS_PREFIX \o <<"b">>, {SHF_ALLOC, SHF_WRITE}, 8, 8)
NoteX == Sec("ProgBits", NOTE_PREFIX \o <<".", "x">>, {}, 4, 4)
EhFrame == Sec("ProgBits", <<".", "e", "h", "_", "f", "r", "a", "m", "e">>, {SHF_ALLOC}, 8, 8)
BareBss == Sec("NoBits", <<".", "b", "s", "s">>, {SHF_ALLOC, SHF_WRITE}, 4, 4)
BareText == Sec("ProgBits", BARE_TEXT, {SHF_ALLOC, SHF_EXECINSTR}, 0, 4)

ContentSecs ==
    {TextFoo, TextBar, TextZero, TextPage, TextWritable, RodataR, DataD, BssB,
     NoteX, EhFrame, BareBss, BareText}

Sym(name, shndx, typ, vis, bind) ==
    [name |-> name, shndx |-> shndx, typ |-> typ, vis |-> vis, bind |-> bind]

NullSym == Sym(<<>>, SHN_UNDEF, "NoType", "Default", "Local")
KPRINT == <<"k", "p", "r", "i", "n", "t">>
EXT == <<"e", "x", "t">>
BAR_MANGLED == <<"_", "Z", "N", "3", "b", "a", "r", "2", "h", "1", "E">>
BAR == <<"b", "a", "r">>
FOO == <<"f", "o", "o">>

Rela(offset, addend, sym, typ) ==
    [offset |-> offset, addend |-> addend, sym |-> sym, typ |-> typ]

RelaSec(name, info, entries) ==
    [typ |-> "Rela", name |-> name, flags |-> {}, size |-> 24 * Len(entries), align |-> 8,
     info |-> info, entries |-> entries]

\* xmas_elf's SectionHeader::get_data variant for a section type
DataVariant(sec) ==
    CASE sec.typ = "ProgBits" -> "Undefined"
      [] sec.typ = "NoBits" -> "Empty"
      [] sec.typ = "Null" -> "Empty"
      [] sec.typ = "SymTab" -> "SymbolTable64"
      [] sec.typ = "Rela" -> "Rela64"

(***************************************************************************)
(* The symbol map (metadata::get_symbol): demangled name -> weak handle.   *)
(***************************************************************************)
RegNames == {KPRINT, EXT, BAR, FOO}
Absent == [st |-> "absent", virt_addr |-> Usize(0)]
Live(va) == [st |-> "live", virt_addr |-> va]
Expired(va) == [st |-> "expired", virt_addr |-> va]

\* 0x1_0000_0000, 0xFFFF_FFFF_8000_1000 and 0xFFFF_FFFF_8000_2000
KprintAddr == <<0, 0, 0, 0, 1, 0, 0, 0>>
ExtAddr == <<0, 16, 0, 128, 255, 255, 255, 255>>
OtherBarAddr == <<0, 32, 0, 128, 255, 255, 255, 255>>

RegEmpty == [n \in RegNames |-> Absent]
RegFull == [n \in RegNames |->
              CASE n = KPRINT -> Live(KprintAddr)
                [] n = EXT -> Live(ExtAddr)
                [] n = BAR -> Live(OtherBarAddr)
                [] OTHER -> Absent]
RegExpired == [n \in RegNames |->
              CASE n = KPRINT -> Expired(KprintAddr)
                [] n = BAR -> Live(OtherBarAddr)
                [] OTHER -> Absent]

\* get_symbol(name).upgrade(): the section, or "None"
get_symbol_upgrade(reg, name) ==
    IF name \in DOMAIN reg /\ reg[name].st = "live" THEN reg[name] ELSE Absent

(***************************************************************************)
(* The inputs of a load.                                                   *)
(***************************************************************************)
RECURSIVE SeqsUpTo(_, _)
SeqsUpTo(n, S) ==
    IF n = 0 THEN {<<>>}
    ELSE LET shorter == SeqsUpTo(n - 1, S)
         IN shorter \cup {Append(q, x) : q \in {r \in shorter : Len(r) = n - 1}, x \in S}

GOOD_NAME == KERNEL_MODULE_NAME_PREFIX \o <<"m">>
BAD_NAME == <<"c", "o", "r", "e">>

Input(name, null, elfok, etype, secs, symtab, reg, fa) ==
    [module_name |-> name, start_null |-> null, elf_ok |-> elfok, etype |-> etype,
     secs |-> secs, symtab |-> symtab, registry |-> reg, frame_allocator |-> fa]

\* symbols for objects whose content sections are at indices 1 .. MaxSecs
SymtabA == <<NullSym,
             Sym(FOO, 1, "Func", "Default", "Global"),
             Sym(BAR_MANGLED, 2, "Object", "Default", "Local"),
             Sym(EXT, 3, "Func", "Hidden", "Global")>>
SymtabB == <<NullSym,
             Sym(FOO, 1, "NoType", "Default", "Global"),
             Sym(BAR_MANGLED, 2, "Object", "Default", "Global"),
             Sym(EXT, 1, "Func", "Default", "Weak")>>

PlacementInputs ==
    {Input(GOOD_NAME, FALSE, TRUE, "Relocatable", <<NullSec>> \o c \o <<SymTabSec>>, SymtabA,
           RegEmpty, TRUE) :
        c \in SeqsUpTo(MaxSecs, ContentSecs)}
    \cup
    {Input(GOOD_NAME, FALSE, TRUE, "Relocatable", <<NullSec, SymTabSec>> \o c, SymtabB,
           RegEmpty, TRUE) :
        c \in SeqsUpTo(MaxSecs, ContentSecs)}

PrecondInputs ==
    {Input(n, null, elfok, etype, <<NullSec, TextFoo, RodataR, BssB>> \o st, SymtabA,
           RegFull, fa) :
        n \in {GOOD_NAME, BAD_NAME}, null \in BOOLEAN, elfok \in BOOLEAN,
        etype \in {"Relocatable", "Executable"}, st \in {<<>>, <<SymTabSec>>},
        fa \in BOOLEAN}

\* foo = 1, bar = 2, d = 3, the ignored .note.x = 4, .symtab = 5, the RELA section = 6
RelocSymtab == <<NullSym,
                 Sym(FOO, 1, "Func", "Default", "Global"),
                 Sym(BAR_MANGLED, 2, "Func", "Default", "Global"),
                 Sym(<<"d">>, 3, "Object", "Default", "Local"),
                 Sym(KPRINT, SHN_UNDEF, "NoType", "Default", "Global"),
                 Sym(EXT, 4, "Func", "Default", "Global"),
                 Sym(<<"a">>, SHN_ABS, "Object", "Default", "Global"),
                 Sym(<<"c">>, SHN_COMMON, "Object", "Default", "Global")>>

\* 0xFFFF_FFFF_FFFF_FFFC, the addend -4
MinusFour == <<252, 255, 255, 255, 255, 255, 255, 255>>

RelaEntries ==
    {Rela(4, MinusFour, 2, R_X86_64_PC32),
     Rela(0, Usize(0), 4, R_X86_64_64),
     Rela(8, Usize(8), 5, R_X86_64_32),
     Rela(8, Usize(0), 2, R_X86_64_PC64),
     Rela(4, Usize(0), 6, R_X86_64_64),
     Rela(0, Usize(0), 7, R_X86_64_64),
     Rela(0, Usize(0), 1, R_X86_64_GOTPCREL),
     Rela(0, Usize(0), 8, R_X86_64_64),
     Rela(PAGE_SIZE, Usize(0), 1, R_X86_64_64)}

\* the name after ".rela" and the target section (info) of a RELA section
RelaHeads ==
    {<<TEXT_PREFIX \o FOO, 1>>, <<<<".", "x">>, 4>>, <<DEBUG_PREFIX, 1>>}

RelaHeadsAndRegistries ==
    {<<h, RegFull>> : h \in RelaHeads}
    \cup {<<<<TEXT_PREFIX \o FOO, 1>>, RegEmpty>>, <<<<TEXT_PREFIX \o FOO, 1>>, RegExpired>>}

RelocInputs ==
    {Input(GOOD_NAME, FALSE, TRUE, "Relocatable",
           <<NullSec, TextFoo, TextBar, DataD, NoteX, SymTabSec,
             RelaSec(<<".", "r", "e", "l", "a">> \o hr[1][1], hr[1][2], es)>>,
           RelocSymtab, hr[2], TRUE) :
        hr \in RelaHeadsAndRegistries, es \in SeqsUpTo(MaxEntries, RelaEntries)}

\* the object of RelocInputs with the zero-size .text.z at index 2, where the symbol of
\* index 2 points (the relocations are those of .text.foo), and an object with two
\* zero-size sections in a row
ZeroSizeInputs ==
    {Input(GOOD_NAME, FALSE, TRUE, "Relocatable",
           <<NullSec, TextZero, TextZero, TextFoo, SymTabSec>>, SymtabA, RegEmpty, TRUE)}
    \cup
    {Input(GOOD_NAME, FALSE, TRUE, "Relocatable",
           <<NullSec, TextFoo, TextZero, DataD, NoteX, SymTabSec,
             RelaSec(<<".", "r", "e", "l", "a">> \o TEXT_PREFIX \o FOO, 1, es)>>,
           RelocSymtab, RegFull, TRUE) :
        es \in SeqsUpTo(MaxEntries, RelaEntries)}

\* an object whose three sections are each named by a symbol that is no global function
\* or object: by its type, by its binding, by its visibility
GlobalFlagInputs ==
    {Input(GOOD_NAME, FALSE, TRUE, "Relocatable",
           <<NullSec, TextFoo, RodataR, DataD, SymTabSec>>,
           <<NullSym,
             Sym(FOO, 1, "NoType", "Default", "Global"),
             Sym(<<"r">>, 2, "Func", "Default", "Weak"),
             Sym(<<"d">>, 3, "Object", "Protected", "Global")>>,
           RegEmpty, TRUE)}

\* objects whose writable sections differ in alignment: .data.s (4 bytes, aligned to 4),
\* .data.d and .bss.b (aligned to 8), in every order
AlignmentInputs ==
    {Input(GOOD_NAME, FALSE, TRUE, "Relocatable", <<NullSec>> \o c \o <<SymTabSec>>, SymtabA,
           RegEmpty, TRUE) :
        c \in SeqsUpTo(MaxSecs,
                       {Sec("ProgBits", DATA_PREFIX \o <<"s">>, {SHF_ALLOC, SHF_WRITE}, 4, 4),
                        DataD, BssB})}

Inputs ==
    PlacementInputs \cup PrecondInputs \cup RelocInputs \cup ZeroSizeInputs
        \cup GlobalFlagInputs \cup AlignmentInputs

(***************************************************************************)
(* The state of one call of parse_elf_kernel_crate.                        *)
(***************************************************************************)
VARIABLES
    input,            \* the arguments and the object file
    registry,         \* the symbol map
    pc,               \* where the call is
    result,           \* what the call returned, once it has
    global_sections,  \* Phase A
    bytecount,        \* Phase B: text_bytecount, rodata_bytecount, data_bytecount
    pages,            \* text_pages, rodata_pages, data_pages
    frame_allocator,  \* the FRAME_ALLOCATOR lock
    loaded_sections,  \* shndx -> LoadedSection
    offsets,          \* text_offset, rodata_offset, data_offset
    shndx,            \* the section the current loop is at
    rela,             \* the entry the relocation loop is at (0: between sections)
    mem,              \* the writes done so far, oldest first
    applied,          \* the relocation entries applied so far
    crate,            \* the LoadedCrate returned
    exec,             \* a call of parse_elf_executable
    nano,             \* a call of parse_nano_core_symbols
    dem,              \* a call of demangle_symbol
    peer,             \* another call of parse_elf_kernel_crate, as far as its locks go
    fb                \* the frame buffer and its drawer

vars == <<input, registry, pc, result, global_sections, bytecount, pages, frame_allocator,
          loaded_sections, offsets, shndx, rela, mem, applied, crate, exec, nano, dem,
          peer, fb>>

\* the calls of the other functions of the module
other_calls == <<exec, nano, dem, peer, fb>>

\* no call of the function is in progress
NoCall == [pos |-> "idle"]

Classes == {"text", "rodata", "data"}
PRESENT == "PRESENT"
WRITABLE == "WRITABLE"
NO_EXECUTE == "NO_EXECUTE"

\* where the page allocator puts each class's pages:
\* 0xFFFF_FFFF_8020_0000, 0xFFFF_FFFF_8030_0000, 0x0000_0000_FFFF_F000
BaseOf(c) ==
    CASE c = "text" -> <<0, 0, 32, 128, 255, 255, 255, 255>>
      [] c = "rodata" -> <<0, 0, 48, 128, 255, 255, 255, 255>>
      [] c = "data" -> <<0, 240, 255, 255, 0, 0, 0, 0>>

\* a small usize as a number
ToNat(u) == u[1] + 256 * u[2] + 65536 * u[3] + 16777216 * u[4]

\* the offset of an address from the start of class c's pages
OffsetIn(c, va) == ToNat(wrapping_sub(va, BaseOf(c)))

NotYet == [st |-> "NotYet", npages |-> 0, flags |-> {}]
Running == [kind |-> "Running", msg |-> ""]
Err(msg) == [kind |-> "Err", msg |-> msg]
Panic(msg) == [kind |-> "Panic", msg |-> msg]
NoCrate == [crate_name |-> <<>>, sections |-> <<>>, mapped_pages |-> <<>>]

Init ==
    /\ input \in Inputs
    /\ registry = input.registry
    /\ pc = "validate"
    /\ result = Running
    /\ global_sections = {}
    /\ bytecount = [c \in Classes |-> 0]
    /\ pages = [c \in Classes |-> NotYet]
    /\ frame_allocator = "free"
    /\ loaded_sections = <<>>
    /\ offsets = [c \in Classes |-> 0]
    /\ shndx = 0
    /\ rela = 0
    /\ mem = <<>>
    /\ applied = <<>>
    /\ crate = NoCrate
    /\ exec = NoCall
    /\ nano = NoCall
    /\ dem = NoCall
    /\ peer = NoCall
    /\ fb = NoCall

\* MappedPages::drop of every region the call still owns
DropPages(pgs) ==
    [c \in Classes |-> IF pgs[c].st = "Mapped" THEN [pgs[c] EXCEPT !.st = "Released"]
                       ELSE pgs[c]]

\* ReturnErr as it would be if the regions outlived the call
ReturnErrLeaking(msg) ==
    /\ pc' = "done"
    /\ result' = Err(msg)
    /\ frame_allocator' = (IF frame_allocator = "held" THEN "free" ELSE frame_allocator)
    /\ UNCHANGED <<other_calls, input, registry, global_sections, bytecount, pages, loaded_sections,
                   offsets, shndx, rela, mem, applied, crate>>

\* `return Err(msg)`: the locals go out of scope (a guard of the frame allocator that
\* this call holds among them)
ReturnErr(msg) ==
    /\ pc' = "done"
    /\ result' = Err(msg)
    /\ pages' = DropPages(pages)
    /\ frame_allocator' = (IF frame_allocator = "held" THEN "free" ELSE frame_allocator)
    /\ UNCHANGED <<other_calls, input, registry, global_sections, bytecount, loaded_sections, offsets,
                   shndx, rela, mem, applied, crate>>

\* a failed assert!, or an index out of bounds: the kernel panics, nothing unwinds
DoPanic(msg) ==
    /\ pc' = "done"
    /\ result' = Panic(msg)
    /\ UNCHANGED <<other_calls, input, registry, global_sections, bytecount, pages, frame_allocator,
                   loaded_sections, offsets, shndx, rela, mem, applied, crate>>

find_first_section_by_type(secs, typ) ==
    LET hits == {k \in 1..Len(secs) : secs[k].typ = typ}
    IN IF hits = {} THEN 0 ELSE CHOOSE k \in hits : \A m \in hits : k <= m

\* Preconditions without the symbol-table check
PreconditionsNoSymtab(in) ==
    IF in.start_null THEN "start_addr for parse_elf_kernel_crate is null!"
    ELSE IF ~starts_with(in.module_name, KERNEL_MODULE_NAME_PREFIX)
        THEN "module_name didn't start with __k_"
    ELSE IF ~in.elf_ok THEN "ElfFile::new failed"
    ELSE IF in.etype # "Relocatable" THEN "not a relocatable elf file"
    ELSE "ok"

\* the checks before Phase A: "ok", or the error returned
Preconditions(in) ==
    IF in.start_null THEN "start_addr for parse_elf_kernel_crate is null!"
    ELSE IF ~starts_with(in.module_name, KERNEL_MODULE_NAME_PREFIX)
        THEN "module_name didn't start with __k_"
    ELSE IF ~in.elf_ok THEN "ElfFile::new failed"
    ELSE IF in.etype # "Relocatable" THEN "not a relocatable elf file"
    ELSE IF find_first_section_by_type(in.secs, "SymTab") = 0
        THEN "cannot load: no symbol table found. Was file stripped?"
    ELSE "ok"

Validate ==
    /\ pc = "validate"
    /\ IF Preconditions(input) = "ok"
       THEN /\ pc' = "phaseA"
            /\ UNCHANGED <<other_calls, input, registry, result, global_sections, bytecount, pages,
                           frame_allocator, loaded_sections, offsets, shndx, rela, mem,
                           applied, crate>>
       ELSE ReturnErr(Preconditions(input))

\* GlobalSections without the test of the visibility
GlobalSectionsAnyVisibility(symtab) ==
    {symtab[k].shndx : k \in {m \in 1..Len(symtab) :
        /\ symtab[m].typ \in {"Func", "Object"}
        /\ symtab[m].bind = "Global"}}

\* Phase A: the sections that hold a global function or object
GlobalSections(symtab) ==
    {symtab[k].shndx : k \in {m \in 1..Len(symtab) :
        /\ symtab[m].typ \in {"Func", "Object"}
        /\ symtab[m].vis = "Default"
        /\ symtab[m].bind = "Global"}}

PhaseA ==
    /\ pc = "phaseA"
    /\ global_sections' = GlobalSections(input.symtab)
    /\ pc' = "phaseB"
    /\ UNCHANGED <<other_calls, input, registry, result, bytecount, pages, frame_allocator,
                   loaded_sections, offsets, shndx, rela, mem, applied, crate>>

\* util::round_up_power_of_two: the smallest multiple of align that is >= value
round_up_power_of_two(value, align) == ((value + align - 1) \div align) * align

\* the class Phase B counts a section under, by its flags ("none": not counted)
PlannedClass(sec) ==
    IF sec.typ \notin {"ProgBits", "NoBits"} THEN "none"
    ELSE IF sec.size = 0 \/ SHF_ALLOC \notin sec.flags THEN "none"
    ELSE IF SHF_EXECINSTR \in sec.flags THEN "text"
    ELSE IF SHF_WRITE \in sec.flags THEN "data"
    ELSE "rodata"

RECURSIVE PlanBytes(_, _, _)
PlanBytes(secs, k, c) ==
    IF k > Len(secs) THEN 0
    ELSE (IF PlannedClass(secs[k]) = c
          THEN round_up_power_of_two(secs[k].size, secs[k].align) ELSE 0)
         + PlanBytes(secs, k + 1, c)

PhaseB ==
    /\ pc = "phaseB"
    /\ bytecount' = [c \in Classes |-> PlanBytes(input.secs, 1, c)]
    /\ pc' = "lock"
    /\ UNCHANGED <<other_calls, input, registry, result, global_sections, pages, frame_allocator,
                   loaded_sections, offsets, shndx, rela, mem, applied, crate>>

\* FRAME_ALLOCATOR.try().ok_or(..)?.lock()
LockFrameAllocator ==
    /\ pc = "lock"
    /\ IF input.frame_allocator
       THEN /\ frame_allocator = "free"
            /\ frame_allocator' = "held"
            /\ pc' = "alloc_text"
            /\ UNCHANGED <<other_calls, input, registry, result, global_sections, bytecount, pages,
                           loaded_sections, offsets, shndx, rela, mem, applied, crate>>
       ELSE ReturnErr("couldn't get FRAME_ALLOCATOR")

\* allocate_pages_by_bytes: the pages that cover n bytes
PagesFor(n) == (n + PAGE_SIZE - 1) \div PAGE_SIZE

AfterAlloc(c) ==
    CASE c = "text" -> "alloc_rodata"
      [] c = "rodata" -> "alloc_data"
      [] c = "data" -> "unlock"

\* allocate_pages_closure(bytecount), or Err when the class has no bytes
Allocate(c) ==
    /\ pc = "alloc_" \o c
    /\ \E ok \in BOOLEAN :
        pages' = [pages EXCEPT ![c] =
            IF bytecount[c] > 0 /\ ok
            THEN [st |-> "Mapped", npages |-> PagesFor(bytecount[c]),
                  flags |-> {PRESENT, WRITABLE}]
            ELSE [st |-> "Err", npages |-> 0, flags |-> {}]]
    /\ pc' = AfterAlloc(c)
    /\ UNCHANGED <<other_calls, input, registry, result, global_sections, bytecount, frame_allocator,
                   loaded_sections, offsets, shndx, rela, mem, applied, crate>>

\* UnlockFrameAllocator with the guard kept until the call returns
UnlockFrameAllocatorAtReturn ==
    /\ pc = "unlock"
    /\ pc' = "place"
    /\ shndx' = 0
    /\ UNCHANGED <<other_calls, input, registry, result, global_sections, bytecount, pages,
                   frame_allocator, loaded_sections, offsets, rela, mem, applied, crate>>

\* the end of the block that holds the frame allocator's guard
UnlockFrameAllocator ==
    /\ pc = "unlock"
    /\ frame_allocator' = "free"
    /\ pc' = "place"
    /\ shndx' = 0
    /\ UNCHANGED <<other_calls, input, registry, result, global_sections, bytecount, pages,
                   loaded_sections, offsets, rela, mem, applied, crate>>

(***************************************************************************)
(* Phase D: copying the sections into the pages.                           *)
(***************************************************************************)
\* the class a section name selects, by its prefix ("none": no prefix matches)
NameClass(name) ==
    IF starts_with(name, TEXT_PREFIX) THEN "text"
    ELSE IF starts_with(name, RODATA_PREFIX) THEN "rodata"
    ELSE IF starts_with(name, DATA_PREFIX) THEN "data"
    ELSE IF starts_with(name, BSS_PREFIX) THEN "data"
    ELSE "none"

PrefixLen(name) ==
    IF starts_with(name, TEXT_PREFIX) THEN Len(TEXT_PREFIX)
    ELSE IF starts_with(name, RODATA_PREFIX) THEN Len(RODATA_PREFIX)
    ELSE IF starts_with(name, DATA_PREFIX) THEN Len(DATA_PREFIX)
    ELSE Len(BSS_PREFIX)

\* the flags the assert! of each branch demands
RequiredFlags(name) ==
    IF starts_with(name, TEXT_PREFIX) THEN {SHF_ALLOC, SHF_EXECINSTR}
    ELSE IF starts_with(name, RODATA_PREFIX) THEN {SHF_ALLOC}
    ELSE {SHF_ALLOC, SHF_WRITE}

SectionKind(c) ==
    CASE c = "text" -> "Text" [] c = "rodata" -> "Rodata" [] c = "data" -> "Data"

NoPagesMsg(name) ==
    IF starts_with(name, TEXT_PREFIX) THEN "no text_pages were allocated"
    ELSE IF starts_with(name, RODATA_PREFIX) THEN "no rodata_pages were allocated"
    ELSE IF starts_with(name, DATA_PREFIX) THEN "no data_pages were allocated for .data section"
    ELSE "no data_pages were allocated for .bss section"

\* EffectiveSec without the step to the next header
EffectiveSecOwnHeader(secs, i) == secs[i + 1]

\* the header whose size, alignment and data a section uses: its own, or the next
\* header's when its own size is 0
EffectiveSec(secs, i) ==
    IF secs[i + 1].size = 0 /\ i + 2 <= Len(secs) THEN secs[i + 2] ELSE secs[i + 1]

\* what the loop body does with section i: skip it, return an error, panic, or place it
PlaceDecision(secs, i, pgs) ==
    LET hdr == secs[i + 1]
        sec == EffectiveSec(secs, i)
        is_bss == starts_with(hdr.name, BSS_PREFIX)
    IN  IF hdr.typ \notin {"ProgBits", "NoBits"} THEN [kind |-> "skip", msg |-> ""]
        ELSE IF hdr.size = 0 /\ i + 2 > Len(secs)
            THEN [kind |-> "err", msg |-> "couldn't get next section for a zero-sized section"]
        ELSE IF is_bss /\ DataVariant(sec) # "Empty"
            THEN [kind |-> "err", msg |-> ".bss section had data that wasn't Empty"]
        ELSE IF ~is_bss /\ DataVariant(sec) # "Undefined"
            THEN [kind |-> "err",
                  msg |-> "couldn't get sec_data in .text, .data, or .rodata section"]
        ELSE IF NameClass(hdr.name) = "none" THEN [kind |-> "skip", msg |-> ""]
        ELSE IF hdr.flags \cap {SHF_ALLOC, SHF_WRITE, SHF_EXECINSTR} # RequiredFlags(hdr.name)
            THEN [kind |-> "panic", msg |-> "section had wrong flags!"]
        ELSE IF pgs[NameClass(hdr.name)].st # "Mapped"
            THEN [kind |-> "err", msg |-> NoPagesMsg(hdr.name)]
        ELSE [kind |-> "place", msg |-> ""]

\* the LoadedSection inserted for section i
NewSection(secs, i, offs, globals) ==
    LET hdr == secs[i + 1]
        c == NameClass(hdr.name)
        demangled == demangle_symbol(StrFrom(hdr.name, PrefixLen(hdr.name)))
    IN  [typ |-> SectionKind(c),
         abs_symbol |-> demangled.full,
         hash |-> demangled.hash,
         virt_addr |-> wrapping_add(BaseOf(c), Usize(offs[c])),
         size |-> EffectiveSec(secs, i).size,
         global |-> i \in globals]

\* AdvancedOffset by the section's own header, not the one its bytes come from
AdvancedOffsetOwnHeader(secs, i, offs) ==
    offs[NameClass(secs[i + 1].name)]
        + round_up_power_of_two(secs[i + 1].size, secs[i + 1].align)

\* the offset after section i has been placed
AdvancedOffset(secs, i, offs) ==
    offs[NameClass(secs[i + 1].name)]
        + round_up_power_of_two(EffectiveSec(secs, i).size, EffectiveSec(secs, i).align)

\* a write of len bytes at offset off of class c's pages
Write(c, off, len, kind, val, pgs) ==
    [cls |-> c, off |-> off, len |-> len, kind |-> kind, val |-> val,
     flags |-> pgs[c].flags,
     inside |-> off + len <= pgs[c].npages * PAGE_SIZE]

\* the write that fills section i's bytes
PlaceWrite(secs, i, offs, pgs) ==
    Write(NameClass(secs[i + 1].name), offs[NameClass(secs[i + 1].name)],
          EffectiveSec(secs, i).size,
          IF starts_with(secs[i + 1].name, BSS_PREFIX) THEN "zero" ELSE "copy",
          <<>>, pgs)

\* a write outside the mapped pages faults; the kernel stops there
Fault ==
    /\ pc' = "done"
    /\ result' = [kind |-> "Fault", msg |-> "write outside the mapped pages"]
    /\ UNCHANGED <<other_calls, input, registry, global_sections, bytecount, pages, frame_allocator,
                   loaded_sections, offsets, shndx, rela, mem, applied, crate>>

\* AfterPlacePc with the permissions tightened before the relocations
AfterPlacePcRemapFirst == "remap_text"

\* the phase that follows the loop over the sections
AfterPlacePc == "reloc"

PlaceSection ==
    /\ pc = "place"
    /\ LET d == PlaceDecision(input.secs, shndx, pages)
           c == NameClass(input.secs[shndx + 1].name)
           w == PlaceWrite(input.secs, shndx, offsets, pages)
           last == shndx + 1 = Len(input.secs)
       IN  CASE d.kind = "err" -> ReturnErr(d.msg)
             [] d.kind = "panic" -> DoPanic(d.msg)
             [] d.kind = "skip" ->
                  /\ shndx' = IF last THEN 0 ELSE shndx + 1
                  /\ pc' = IF last THEN AfterPlacePc ELSE "place"
                  /\ UNCHANGED <<other_calls, input, registry, result, global_sections, bytecount, pages,
                                 frame_allocator, loaded_sections, offsets, rela, mem,
                                 applied, crate>>
             [] d.kind = "place" ->
                  \/ /\ ~w.inside
                     /\ Fault
                  \/ /\ mem' = Append(mem, w)
                     /\ loaded_sections' = (shndx :> NewSection(input.secs, shndx, offsets,
                                                                  global_sections))
                                             @@ loaded_sections
                     /\ offsets' = [offsets EXCEPT ![c] =
                                        AdvancedOffset(input.secs, shndx, offsets)]
                     /\ shndx' = IF last THEN 0 ELSE shndx + 1
                     /\ pc' = IF last THEN AfterPlacePc ELSE "place"
                     /\ UNCHANGED <<other_calls, input, registry, result, global_sections, bytecount,
                                    pages, frame_allocator, rela, applied, crate>>

(***************************************************************************)
(* Phase E: relocations.                                                   *)
(***************************************************************************)
SkippedRelaName(name) ==
    \/ starts_with(name, RELA_EH_FRAME)
    \/ starts_with(name, RELA_NOTE)
    \/ starts_with(name, RELA_GCC)
    \/ starts_with(name, RELA_DEBUG)

\* ProcessedRela without the test of the section's name
ProcessedRelaAnyName(sec, loaded) ==
    /\ sec.typ = "Rela"
    /\ sec.size # 0
    /\ sec.info \in DOMAIN loaded

\* whether the entries of section header sec are processed
ProcessedRela(sec, loaded) ==
    /\ sec.typ = "Rela"
    /\ sec.size # 0
    /\ ~SkippedRelaName(sec.name)
    /\ sec.info \in DOMAIN loaded

UnsupportedShndx ==
    {SHN_LORESERVE, SHN_LOPROC, SHN_HIPROC, SHN_LOOS, SHN_HIOS, SHN_COMMON, SHN_XINDEX,
     SHN_HIRESERVE}

\* SourceSec with the symbol map asked before the crate's own sections
SourceSecRegistryFirst(sym, loaded, reg) ==
    IF sym.shndx \in UnsupportedShndx
        THEN [kind |-> "err", msg |-> "Unsupported source section shndx"]
    ELSE IF sym.shndx = SHN_ABS
        THEN [kind |-> "err", msg |-> "Unsupported source section shndx SHN_ABS!!"]
    ELSE IF get_symbol_upgrade(reg, demangle_symbol(sym.name).full).st = "live"
        THEN [kind |-> "ok",
              virt_addr |-> get_symbol_upgrade(reg, demangle_symbol(sym.name).full).virt_addr,
              from |-> "get_symbol"]
    ELSE IF sym.shndx # SHN_UNDEF /\ sym.shndx \in DOMAIN loaded
        THEN [kind |-> "ok", virt_addr |-> loaded[sym.shndx].virt_addr, from |-> "loaded_sections"]
    ELSE [kind |-> "err", msg |-> "Could not resolve source section for symbol relocation"]

\* SourceSec with a symbol that cannot be resolved treated as address 0
SourceSecUnresolvedZero(sym, loaded, reg) ==
    IF sym.shndx \in UnsupportedShndx
        THEN [kind |-> "err", msg |-> "Unsupported source section shndx"]
    ELSE IF sym.shndx = SHN_ABS
        THEN [kind |-> "err", msg |-> "Unsupported source section shndx SHN_ABS!!"]
    ELSE IF sym.shndx # SHN_UNDEF /\ sym.shndx \in DOMAIN loaded
        THEN [kind |-> "ok", virt_addr |-> loaded[sym.shndx].virt_addr, from |-> "loaded_sections"]
    ELSE [kind |-> "ok",
          virt_addr |-> get_symbol_upgrade(reg, demangle_symbol(sym.name).full).virt_addr,
          from |-> "get_symbol"]

\* the source section of a symbol: [kind |-> "ok", sec, from] or [kind |-> "err", msg]
SourceSec(sym, loaded, reg) ==
    IF sym.shndx \in UnsupportedShndx
        THEN [kind |-> "err", msg |-> "Unsupported source section shndx"]
    ELSE IF sym.shndx = SHN_ABS
        THEN [kind |-> "err", msg |-> "Unsupported source section shndx SHN_ABS!!"]
    ELSE IF sym.shndx # SHN_UNDEF /\ sym.shndx \in DOMAIN loaded
        THEN [kind |-> "ok", virt_addr |-> loaded[sym.shndx].virt_addr, from |-> "loaded_sections"]
    ELSE IF get_symbol_upgrade(reg, demangle_symbol(sym.name).full).st = "live"
        THEN [kind |-> "ok",
              virt_addr |-> get_symbol_upgrade(reg, demangle_symbol(sym.name).full).virt_addr,
              from |-> "get_symbol"]
    ELSE [kind |-> "err", msg |-> "Could not resolve source section for symbol relocation"]

SupportedTypes == {R_X86_64_32, R_X86_64_64, R_X86_64_PC32, R_X86_64_PC64}

\* RelocValue with the PC-relative types left absolute
RelocValueAbsolute(typ, source_va, addend, dest_ptr) ==
    CASE typ = R_X86_64_32 -> as_u32(wrapping_add(source_va, addend))
      [] typ = R_X86_64_64 -> as_u64(wrapping_add(source_va, addend))
      [] typ = R_X86_64_PC32 -> as_u32(wrapping_add(source_va, addend))
      [] typ = R_X86_64_PC64 -> as_u64(wrapping_add(source_va, addend))

\* the value a relocation stores, as the bytes written
RelocValue(typ, source_va, addend, dest_ptr) ==
    CASE typ = R_X86_64_32 -> as_u32(wrapping_add(source_va, addend))
      [] typ = R_X86_64_64 -> as_u64(wrapping_add(source_va, addend))
      [] typ = R_X86_64_PC32 ->
            as_u32(wrapping_sub(wrapping_add(source_va, addend), dest_ptr))
      [] typ = R_X86_64_PC64 ->
            as_u64(wrapping_sub(wrapping_add(source_va, addend), dest_ptr))

\* the class of the pages a loaded section lies in
ClassOf(ls) ==
    CASE ls.typ = "Text" -> "text" [] ls.typ = "Rodata" -> "rodata" [] ls.typ = "Data" -> "data"

\* the cursor after the section at shndx is finished
NextRelaSection ==
    /\ rela' = 0
    /\ shndx' = IF shndx + 1 = Len(input.secs) THEN 0 ELSE shndx + 1
    /\ pc' = IF shndx + 1 = Len(input.secs) THEN "remap_text" ELSE "reloc"

\* the head of the loop over the section headers
RelocSection ==
    /\ pc = "reloc"
    /\ rela = 0
    /\ LET sec == input.secs[shndx + 1]
       IN  IF ProcessedRela(sec, loaded_sections)
           THEN IF DataVariant(sec) # "Rela64"
                THEN ReturnErr("Found Rela section that wasn't able to be parsed as Rela64")
                ELSE /\ rela' = 1
                     /\ UNCHANGED <<other_calls, input, registry, pc, result, global_sections, bytecount,
                                    pages, frame_allocator, loaded_sections, offsets, shndx,
                                    mem, applied, crate>>
           ELSE /\ NextRelaSection
                /\ UNCHANGED <<other_calls, input, registry, result, global_sections, bytecount, pages,
                               frame_allocator, loaded_sections, offsets, mem, applied,
                               crate>>

\* one entry of the section at shndx
RelocEntry ==
    /\ pc = "reloc"
    /\ rela >= 1
    /\ LET sec == input.secs[shndx + 1]
           r == sec.entries[rela]
           target_sec == loaded_sections[sec.info]
           dest_ptr == wrapping_add(target_sec.virt_addr, Usize(r.offset))
           src == SourceSec(input.symtab[r.sym + 1], loaded_sections, registry)
           c == ClassOf(target_sec)
           val == RelocValue(r.typ, src.virt_addr, r.addend, dest_ptr)
           w == Write(c, OffsetIn(c, dest_ptr), Len(val), "reloc", val, pages)
       IN  IF r.sym >= Len(input.symtab) THEN DoPanic("index out of bounds")
           ELSE IF src.kind = "err" THEN ReturnErr(src.msg)
           ELSE IF r.typ \notin SupportedTypes
               THEN ReturnErr("found unsupported relocation type")
           ELSE \/ /\ ~w.inside
                   /\ Fault
                \/ /\ mem' = Append(mem, w)
                   /\ applied' = Append(applied,
                         [shndx |-> shndx, rela |-> rela, at |-> Len(mem) + 1,
                          from |-> src.from])
                   /\ IF rela = Len(sec.entries)
                      THEN NextRelaSection
                      ELSE /\ rela' = rela + 1
                           /\ UNCHANGED <<pc, shndx>>
                   /\ UNCHANGED <<other_calls, input, registry, result, global_sections, bytecount,
                                  pages, frame_allocator, loaded_sections, offsets, crate>>

(***************************************************************************)
(* Phase F: the final permissions; then the LoadedCrate.                   *)
(***************************************************************************)
\* FinalFlags with the read-only data left executable
FinalFlagsRodataExec(c) ==
    CASE c = "text" -> {PRESENT}
      [] c = "rodata" -> {PRESENT}
      [] c = "data" -> {PRESENT, WRITABLE, NO_EXECUTE}

\* the flags each remap asks for
FinalFlags(c) ==
    CASE c = "text" -> {PRESENT}
      [] c = "rodata" -> {PRESENT, NO_EXECUTE}
      [] c = "data" -> {PRESENT, WRITABLE, NO_EXECUTE}

AfterRemap(c) ==
    CASE c = "text" -> "remap_rodata"
      [] c = "rodata" -> "remap_data"
      [] c = "data" -> "finish"

\* if let Ok(p) = <c>_pages { try!(active_table.remap(&p, flags)); all_pages.push(p) }
Remap(c) ==
    /\ pc = "remap_" \o c
    /\ IF pages[c].st = "Mapped"
       THEN \/ /\ pages' = [pages EXCEPT ![c].flags = FinalFlags(c)]
               /\ pc' = AfterRemap(c)
               /\ UNCHANGED <<other_calls, input, registry, result, global_sections, bytecount,
                              frame_allocator, loaded_sections, offsets, shndx, rela, mem,
                              applied, crate>>
            \/ ReturnErr("remap failed")
       ELSE /\ pc' = AfterRemap(c)
            /\ UNCHANGED <<other_calls, input, registry, result, global_sections, bytecount, pages,
                           frame_allocator, loaded_sections, offsets, shndx, rela, mem,
                           applied, crate>>

RECURSIVE SortedSeq(_)
SortedSeq(S) ==
    IF S = {} THEN <<>>
    ELSE LET m == CHOOSE x \in S : \A y \in S : x <= y
         IN <<m>> \o SortedSeq(S \ {m})

\* the values of the section map, in key order
SectionValues(loaded) ==
    [k \in 1..Cardinality(DOMAIN loaded) |-> loaded[SortedSeq(DOMAIN loaded)[k]]]

\* all_pages: the regions that were mapped, text then rodata then data
AllPages(pgs) ==
    SelectSeq(<<"text", "rodata", "data">>, LAMBDA c : pgs[c].st = "Mapped")

\* RegistryAtReturn as it would be if the call published its global sections
RegistryPublishing(reg, loaded) ==
    [n \in DOMAIN reg \cup {loaded[k].abs_symbol : k \in {m \in DOMAIN loaded : loaded[m].global}} |->
        IF \E k \in DOMAIN loaded : loaded[k].global /\ loaded[k].abs_symbol = n
        THEN Live(loaded[CHOOSE k \in DOMAIN loaded :
                            /\ loaded[k].global /\ loaded[k].abs_symbol = n
                            /\ \A m \in DOMAIN loaded :
                                 loaded[m].global /\ loaded[m].abs_symbol = n => m <= k].virt_addr)
        ELSE reg[n]]

\* the symbol map after the call returns Ok: the call has not written to it
RegistryAtReturn(reg, loaded) == reg

Finish ==
    /\ pc = "finish"
    /\ crate' = [crate_name |-> StrFrom(input.module_name, Len(KERNEL_MODULE_NAME_PREFIX)),
                 sections |-> SectionValues(loaded_sections),
                 mapped_pages |-> AllPages(pages)]
    /\ registry' = RegistryAtReturn(registry, loaded_sections)
    /\ result' = [kind |-> "Ok", msg |-> ""]
    /\ pc' = "done"
    /\ UNCHANGED <<other_calls, input, global_sections, bytecount, pages, frame_allocator,
                   loaded_sections, offsets, shndx, rela, mem, applied>>

Next ==
    \/ Validate
    \/ PhaseA
    \/ PhaseB
    \/ LockFrameAllocator
    \/ Allocate("text")
    \/ Allocate("rodata")
    \/ Allocate("data")
    \/ UnlockFrameAllocator
    \/ PlaceSection
    \/ RelocSection
    \/ RelocEntry
    \/ Remap("text")
    \/ Remap("rodata")
    \/ Remap("data")
    \/ Finish

Spec == Init /\ [][Next]_vars

(***************************************************************************)
(* Reading the memory back.                                                *)
(***************************************************************************)
\* the last write that covers byte o of class c's pages (0: none)
LastWriteAt(c, o) ==
    LET hits == {k \in 1..Len(mem) :
                    mem[k].cls = c /\ mem[k].off <= o /\ o < mem[k].off + mem[k].len}
    IN IF hits = {} THEN 0 ELSE CHOOSE k \in hits : \A m \in hits : m <= k

\* the byte at offset o: a relocation's byte, or "copy" / "zero" / "uninit"
ByteAt(c, o) ==
    IF LastWriteAt(c, o) = 0 THEN "uninit"
    ELSE IF mem[LastWriteAt(c, o)].kind = "reloc"
        THEN mem[LastWriteAt(c, o)].val[o - mem[LastWriteAt(c, o)].off + 1]
    ELSE mem[LastWriteAt(c, o)].kind

StoredAt(c, o, n) == [b \in 1..n |-> ByteAt(c, o + b - 1)]

InitialFlags == {PRESENT, WRITABLE}

\* class c's pages have been remapped
Remapped(c) == pages[c].st \in {"Mapped", "Released"} /\ pages[c].flags # InitialFlags

(***************************************************************************)
(* The claims.                                                             *)
(***************************************************************************)
Returned(kind) == pc = "done" /\ result.kind = kind

GlobalKeys == {k \in DOMAIN loaded_sections : loaded_sections[k].global}

C2_FailureAtomicity ==
    Returned("Err") =>
        /\ registry = input.registry
        /\ \A c \in Classes : pages[c].st # "Mapped"
        /\ crate = NoCrate

\* the remap of the rodata pages fails after the text pages were tightened
C2_Witness ==
    /\ Returned("Err")
    /\ result.msg = "remap failed"
    /\ pages["text"].st = "Released"
    /\ pages["text"].flags = {PRESENT}
    /\ pages["rodata"].st = "Released"
    /\ pages["rodata"].flags = InitialFlags

AppliedEntry(a) == input.secs[a.shndx + 1].entries[a.rela]
AppliedTarget(a) == loaded_sections[input.secs[a.shndx + 1].info]
AppliedDest(a) == wrapping_add(AppliedTarget(a).virt_addr, Usize(AppliedEntry(a).offset))
AppliedSym(a) == input.symtab[AppliedEntry(a).sym + 1]
AppliedSourceAddr(a) ==
    IF a.from = "loaded_sections" THEN loaded_sections[AppliedSym(a).shndx].virt_addr
    ELSE get_symbol_upgrade(registry, demangle_symbol(AppliedSym(a).name).full).virt_addr
AppliedWidth(a) ==
    IF AppliedEntry(a).typ \in {R_X86_64_32, R_X86_64_PC32} THEN U32Bytes ELSE UsizeBytes

\* the value of the table of relocation types, for a source and a destination address
TableValue(typ, source_addr, addend, dest_ptr) ==
    LET source == wrapping_add(source_addr, addend)
    IN  CASE typ = R_X86_64_32 -> SubSeq(source, 1, 4)
          [] typ = R_X86_64_64 -> source
          [] typ = R_X86_64_PC32 -> SubSeq(wrapping_sub(source, dest_ptr), 1, 4)
          [] typ = R_X86_64_PC64 -> wrapping_sub(source, dest_ptr)

\* what is stored where applied entry a was written
ReadBack(a) ==
    StoredAt(ClassOf(AppliedTarget(a)), OffsetIn(ClassOf(AppliedTarget(a)), AppliedDest(a)),
             AppliedWidth(a))

RelocationHolds(a) ==
    ReadBack(a) = TableValue(AppliedEntry(a).typ, AppliedSourceAddr(a), AppliedEntry(a).addend,
                             AppliedDest(a))

\* a later applied entry wrote bytes of applied entry k
Overwritten(k) ==
    \E m \in (k + 1)..Len(applied) :
        /\ mem[applied[m].at].cls = mem[applied[k].at].cls
        /\ mem[applied[m].at].off < mem[applied[k].at].off + mem[applied[k].at].len
        /\ mem[applied[k].at].off < mem[applied[m].at].off + mem[applied[m].at].len

\* C3 as stated: when the load completes, every applied entry's destination holds the
\* value of the table.
C3_Original ==
    Returned("Ok") => \A k \in 1..Len(applied) : RelocationHolds(applied[k])

\* C3 amended: from the moment an entry is applied, its destination holds the value of
\* the table for as long as no later applied entry wrote over bytes of it.
C3_RelocationValue ==
    \A k \in 1..Len(applied) : ~Overwritten(k) => RelocationHolds(applied[k])

\* a PC-relative entry with a negative addend and an entry resolved by the symbol map,
\* both still in place when the load completes
C3_Witness ==
    /\ Returned("Ok")
    /\ \E k \in 1..Len(applied) :
          /\ AppliedEntry(applied[k]).typ = R_X86_64_PC32
          /\ AppliedEntry(applied[k]).addend = MinusFour
          /\ ~Overwritten(k)
    /\ \E k \in 1..Len(applied) :
          /\ applied[k].from = "get_symbol"
          /\ ~Overwritten(k)

CurrentRela == input.secs[shndx + 1].entries[rela]
CurrentSym == input.symtab[CurrentRela.sym + 1]
CurrentDest ==
    wrapping_add(loaded_sections[input.secs[shndx + 1].info].virt_addr,
                 Usize(CurrentRela.offset))
Unresolved == "Could not resolve source section for symbol relocation"

\* the entry at the cursor was written in this step, from this source
WrittenFrom(from, source_addr) ==
    Len(applied') > Len(applied) =>
        /\ applied'[Len(applied')].from = from
        /\ mem'[Len(mem')].val
             = TableValue(CurrentRela.typ, source_addr, CurrentRela.addend, CurrentDest)

\* C4: for an entry whose symbol has an ordinary or UNDEF section index: a section index
\* that is a key of the crate's section map gives that section, whatever the symbol map
\* holds; UNDEF, or an index that is no key, gives the section the symbol map holds for
\* the demangled name; and if that handle is missing or expired the load returns the
\* unresolved-symbol error.
C4_SourceResolution ==
    [][ ( /\ pc = "reloc"
          /\ rela >= 1
          /\ CurrentRela.sym < Len(input.symtab)
          /\ CurrentSym.shndx \notin UnsupportedShndx \cup {SHN_ABS} )
        => IF CurrentSym.shndx # SHN_UNDEF /\ CurrentSym.shndx \in DOMAIN loaded_sections
           THEN /\ WrittenFrom("loaded_sections", loaded_sections[CurrentSym.shndx].virt_addr)
                /\ result'.msg # Unresolved
           ELSE IF get_symbol_upgrade(registry, demangle_symbol(CurrentSym.name).full).st
                     = "live"
           THEN /\ WrittenFrom("get_symbol",
                     get_symbol_upgrade(registry,
                                        demangle_symbol(CurrentSym.name).full).virt_addr)
                /\ result'.msg # Unresolved
           ELSE result' = Err(Unresolved)
      ]_vars

\* an entry was resolved to the crate's own section while the symbol map holds another
\* section of the same name, and one was resolved by name
C4_Witness ==
    /\ \E k \in 1..Len(applied) :
          /\ applied[k].from = "loaded_sections"
          /\ get_symbol_upgrade(registry,
                                demangle_symbol(AppliedSym(applied[k]).name).full).st = "live"
    /\ \E k \in 1..Len(applied) :
          /\ applied[k].from = "get_symbol"
          /\ AppliedSym(applied[k]).shndx # SHN_UNDEF

\* C5: in a returned crate, the pages of the Text sections are present, not writable and
\* executable, those of the Rodata sections present, not writable and no-execute, those
\* of the Data sections present, writable and no-execute, they are regions of the crate,
\* and no region of the crate is still as it was first mapped.
C5_PermissionDiscipline ==
    Returned("Ok") =>
        /\ \A k \in 1..Len(crate.sections) :
              LET c == ClassOf(crate.sections[k])
              IN  /\ \E m \in 1..Len(crate.mapped_pages) : crate.mapped_pages[m] = c
                  /\ pages[c].st = "Mapped"
                  /\ PRESENT \in pages[c].flags
                  /\ (WRITABLE \in pages[c].flags) = (crate.sections[k].typ = "Data")
                  /\ (NO_EXECUTE \in pages[c].flags) = (crate.sections[k].typ # "Text")
        /\ \A m \in 1..Len(crate.mapped_pages) :
              pages[crate.mapped_pages[m]].flags # InitialFlags

C5_Witness ==
    /\ Returned("Ok")
    /\ Len(crate.mapped_pages) = 3
    /\ \A t \in {"Text", "Rodata", "Data"} :
          \E k \in 1..Len(crate.sections) : crate.sections[k].typ = t

\* every entry of every processed relocation section has been applied
AllRelocationsApplied ==
    \A i \in 0..(Len(input.secs) - 1) :
        ProcessedRela(input.secs[i + 1], loaded_sections) =>
            \A j \in 1..Len(input.secs[i + 1].entries) :
                \E k \in 1..Len(applied) : applied[k].shndx = i /\ applied[k].rela = j

\* C6: every write of Phase D and Phase E finds its region as it was first mapped
\* (writable, not yet remapped), and no region is remapped before the last entry of the
\* last relocation section has been processed.
C6_PhaseOrdering ==
    /\ \A k \in 1..Len(mem) : mem[k].flags = InitialFlags
    /\ (\E c \in Classes : Remapped(c)) =>
          /\ AllRelocationsApplied
          /\ pc \in {"remap_rodata", "remap_data", "finish", "done"}

C6_Witness ==
    /\ Returned("Ok")
    /\ Len(applied) = MaxEntries
    /\ Remapped("text")
    /\ Remapped("data")

\* C7 as stated: every recorded section lies inside the pages obtained for its class's
\* planned bytes, and Phase D writes nothing outside them.
C7_Containment ==
    /\ \A k \in DOMAIN loaded_sections :
          LET c == ClassOf(loaded_sections[k])
          IN  OffsetIn(c, loaded_sections[k].virt_addr) + loaded_sections[k].size
                <= PagesFor(bytecount[c]) * PAGE_SIZE
    /\ \A k \in 1..Len(mem) : mem[k].kind \in {"copy", "zero"} => mem[k].inside

\* C8: two recorded sections of one class do not overlap, after every placement step.
C8_NonOverlap ==
    \A a, b \in DOMAIN loaded_sections :
        (a # b /\ loaded_sections[a].typ = loaded_sections[b].typ) =>
            LET c == ClassOf(loaded_sections[a])
                astart == OffsetIn(c, loaded_sections[a].virt_addr)
                bstart == OffsetIn(c, loaded_sections[b].virt_addr)
            IN  \/ astart + loaded_sections[a].size <= bstart
                \/ bstart + loaded_sections[b].size <= astart

\* a zero-size section recorded with the next header's bytes, beside that next section
C8_Witness ==
    \E a, b \in DOMAIN loaded_sections :
        /\ b = a + 1
        /\ loaded_sections[a].typ = loaded_sections[b].typ
        /\ input.secs[a + 1].size = 0
        /\ loaded_sections[a].size > 0
        /\ loaded_sections[b].size > 0

BadPrecondition ==
    \/ ~starts_with(input.module_name, KERNEL_MODULE_NAME_PREFIX)
    \/ input.etype # "Relocatable"
    \/ \A k \in 1..Len(input.secs) : input.secs[k].typ # "SymTab"

\* C9: with a module name without the __k_ prefix, an object that is not Relocatable, or
\* an object without a symbol table, the call returns an error; no region is allocated
\* or mapped and the symbol map is not changed, at any point of the call.
C9_Preconditions ==
    BadPrecondition =>
        /\ pc \in {"validate", "done"}
        /\ pc = "done" => result.kind = "Err"
        /\ \A c \in Classes : pages[c] = NotYet
        /\ mem = <<>>
        /\ registry = input.registry
        /\ crate = NoCrate

\* the symbol table is the only thing missing
C9_Witness ==
    /\ Returned("Err")
    /\ starts_with(input.module_name, KERNEL_MODULE_NAME_PREFIX)
    /\ input.etype = "Relocatable"
    /\ ~input.start_null
    /\ input.elf_ok
    /\ \A k \in 1..Len(input.secs) : input.secs[k].typ # "SymTab"

FatalEntry(e) ==
    \/ e.typ \notin {R_X86_64_32, R_X86_64_64, R_X86_64_PC32, R_X86_64_PC64}
    \/ /\ e.sym < Len(input.symtab)
       /\ input.symtab[e.sym + 1].shndx \in
            {SHN_LORESERVE, SHN_LOPROC, SHN_HIPROC, SHN_LOOS, SHN_HIOS, SHN_COMMON,
             SHN_XINDEX, SHN_HIRESERVE, SHN_ABS}

\* C10 as stated: if an entry of a processed relocation section has an unsupported type,
\* or a symbol with a reserved section index, the call returns an error, returns no
\* crate and remaps no region.
C10_RelocationErrorsFatal ==
    ( /\ pc = "done"
      /\ \E i \in 1..Len(input.secs) :
            /\ ProcessedRela(input.secs[i], loaded_sections)
            /\ \E j \in 1..Len(input.secs[i].entries) : FatalEntry(input.secs[i].entries[j]) )
    => /\ result.kind = "Err"
       /\ crate = NoCrate
       /\ \A c \in Classes : ~Remapped(c)

\* C11 as stated: when the planned bytes of a class are not zero and its pages could not
\* be allocated or mapped, what the call returns is an error (never a crate without that
\* region) and the regions of the other classes are released.
C11_AllocationFailureAborts ==
    ( /\ pc = "done"
      /\ result.kind \in {"Ok", "Err"}
      /\ \E c \in Classes : bytecount[c] > 0 /\ pages[c].st = "Err" )
    => /\ result.kind = "Err"
       /\ crate = NoCrate
       /\ \A c \in Classes : pages[c].st # "Mapped"

WrongFlags(sec) ==
    /\ sec.typ \in {"ProgBits", "NoBits"}
    /\ \/ /\ starts_with(sec.name, TEXT_PREFIX)
          /\ sec.flags \cap {SHF_ALLOC, SHF_WRITE, SHF_EXECINSTR} # {SHF_ALLOC, SHF_EXECINSTR}
       \/ /\ starts_with(sec.name, RODATA_PREFIX)
          /\ sec.flags \cap {SHF_ALLOC, SHF_WRITE, SHF_EXECINSTR} # {SHF_ALLOC}
       \/ /\ starts_with(sec.name, DATA_PREFIX) \/ starts_with(sec.name, BSS_PREFIX)
          /\ sec.flags \cap {SHF_ALLOC, SHF_WRITE, SHF_EXECINSTR} # {SHF_ALLOC, SHF_WRITE}

\* C12 as stated: when a section named .text., .rodata., .data. or .bss. has other flags
\* than its prefix requires, the call ends by returning an error to its caller, and the
\* symbol map is not changed.
C12_FlagMismatchIsError ==
    ( /\ pc = "done"
      /\ Preconditions(input) = "ok"
      /\ \E k \in 1..Len(input.secs) : WrongFlags(input.secs[k]) )
    => /\ result.kind = "Err"
       /\ registry = input.registry

\* C13 as stated: every relocation write lies inside the pages of the region that holds
\* the target section; an entry that would write outside them is not written.
C13_RelocationWritesBounded ==
    /\ \A k \in 1..Len(mem) : mem[k].kind = "reloc" => mem[k].inside
    /\ ~(pc = "done" /\ result.kind = "Fault" /\ rela >= 1)

\* the RELA section at the cursor is one the loop skips
SkippedRela(sec) ==
    /\ sec.typ = "Rela"
    /\ \/ sec.size = 0
       \/ starts_with(sec.name, RELA_EH_FRAME)
       \/ starts_with(sec.name, RELA_NOTE)
       \/ starts_with(sec.name, RELA_GCC)
       \/ starts_with(sec.name, RELA_DEBUG)
       \/ sec.info \notin DOMAIN loaded_sections

\* C14: for a RELA section of size zero, or named .rela.eh_frame, .rela.note, .rela.gcc or
\* .rela.debug, or whose target is not in the section map, the loop writes no memory,
\* applies no entry, keeps running and moves to the next section (or to the remaps after
\* the last one), whatever the section's entries are.
C14_SkippedRelaSections ==
    [][ (pc = "reloc" /\ SkippedRela(input.secs[shndx + 1]))
        => /\ mem' = mem
           /\ applied' = applied
           /\ registry' = registry
           /\ result' = Running
           /\ rela = 0 /\ rela' = 0
           /\ IF shndx + 1 = Len(input.secs)
              THEN pc' = "remap_text"
              ELSE pc' = "reloc" /\ shndx' = shndx + 1
      ]_vars

\* a load that went past a skipped section with an entry that would have been fatal
C14_Witness ==
    /\ pc \in {"remap_text", "remap_rodata", "remap_data", "finish", "done"}
    /\ result.kind \in {"Running", "Ok"}
    /\ applied = <<>>
    /\ \E k \in 1..Len(input.secs) :
          /\ SkippedRela(input.secs[k])
          /\ \E j \in 1..Len(input.secs[k].entries) : FatalEntry(input.secs[k].entries[j])

\* the section names the loader ignores: .note*, .gcc*, .debug*, and the bare .text
IgnoredName(name) ==
    \/ starts_with(name, NOTE_PREFIX)
    \/ starts_with(name, GCC_PREFIX)
    \/ starts_with(name, DEBUG_PREFIX)
    \/ name = BARE_TEXT

\* C15 as stated: a PROGBITS/NOBITS section named .note*, .gcc*, .debug* or .text gives no
\* LoadedSection and does not make the call fail, whatever its size, type and data and
\* whatever header follows it.
C15_IgnoredSectionsNeverFail ==
    /\ [](\A k \in DOMAIN loaded_sections : ~IgnoredName(input.secs[k + 1].name))
    /\ [][ ( /\ pc = "place"
             /\ input.secs[shndx + 1].typ \in {"ProgBits", "NoBits"}
             /\ IgnoredName(input.secs[shndx + 1].name) )
           => result' = Running ]_vars

(***************************************************************************)
(* The loader at rest, for the specifications of the other functions.      *)
(***************************************************************************)
LoaderIdle ==
    /\ input = Input(GOOD_NAME, FALSE, TRUE, "Relocatable", <<NullSec>>, <<NullSym>>,
                     RegEmpty, TRUE)
    /\ registry = RegEmpty
    /\ pc = "idle"
    /\ result = Running
    /\ global_sections = {}
    /\ bytecount = [c \in Classes |-> 0]
    /\ pages = [c \in Classes |-> NotYet]
    /\ frame_allocator = "free"
    /\ loaded_sections = <<>>
    /\ offsets = [c \in Classes |-> 0]
    /\ shndx = 0
    /\ rela = 0
    /\ mem = <<>>
    /\ applied = <<>>
    /\ crate = NoCrate

\* the loader's variables without the lock of the frame allocator
loader_vars_but_lock == <<input, registry, pc, result, global_sections, bytecount, pages,
                          loaded_sections, offsets, shndx, rela, mem, applied, crate>>

loader_vars == <<input, registry, pc, result, global_sections, bytecount, pages,
                 frame_allocator, loaded_sections, offsets, shndx, rela, mem, applied, crate>>

(***************************************************************************)
(* parse_elf_executable.                                                   *)
(***************************************************************************)
\* program headers of an object (bound of the model)
MaxPhdrs == 2

\* a program header: type, flags (a subset of R, W, X), virtual_addr, mem_size, offset
Phdr(typ, flags, va, msz, off) ==
    [typ |-> typ, flags |-> flags, virtual_addr |-> va, mem_size |-> msz, offset |-> off]

ProgramHeaders ==
    {Phdr("Load", {"R", "X"}, 4096, 100, 0),
     Phdr("Load", {"R", "W"}, 8192, 300, 200),
     Phdr("Load", {"W"}, 12288, 50, 400),
     Phdr("Note", {"R"}, 0, 20, 500)}

ExecInputs ==
    [start_null : BOOLEAN, elf_ok : BOOLEAN, etype : {"Executable", "Relocatable"},
     phdrs : SeqsUpTo(MaxPhdrs, ProgramHeaders), entry_point : {4196}]

\* EntryFlags::from_elf_program_flags
from_elf_program_flags(prog_flags) ==
    (IF "R" \in prog_flags THEN {PRESENT} ELSE {})
    \cup (IF "W" \in prog_flags THEN {WRITABLE} ELSE {})
    \cup (IF "X" \notin prog_flags THEN {NO_EXECUTE} ELSE {})

\* ElfProgramSegment with the file offset where the virtual address belongs
ElfProgramSegmentAtOffset(prog) ==
    [vma |-> [start |-> prog.offset, size |-> prog.mem_size,
              flags |-> from_elf_program_flags(prog.flags), desc |-> "test_name"],
     offset |-> prog.offset]

\* the ElfProgramSegment pushed for a program header
ElfProgramSegment(prog) ==
    [vma |-> [start |-> prog.virtual_addr, size |-> prog.mem_size,
              flags |-> from_elf_program_flags(prog.flags), desc |-> "test_name"],
     offset |-> prog.offset]

\* what one round of the loop does with a program header: "push", or the error returned
ProgramOutcome(prog) ==
    IF prog.typ # "Load" THEN "Program type in ELF file wasn't LOAD"
    ELSE IF PRESENT \notin from_elf_program_flags(prog.flags)
        THEN "Program flags in ELF file wasn't Read, so EntryFlags wasn't PRESENT!"
    ELSE "push"

ExecInit ==
    /\ LoaderIdle
    /\ nano = NoCall
    /\ dem = NoCall
    /\ peer = NoCall
    /\ fb = NoCall
    /\ \E in \in ExecInputs :
          exec = [pos |-> "start", in |-> in, i |-> 0, prog_sects |-> <<>>, result |-> Running]

ExecReturn(res) == [exec EXCEPT !.pos = "done", !.result = res]

\* the checks before the loop
ExecStart ==
    /\ exec.pos = "start"
    /\ exec' = IF exec.in.start_null THEN ExecReturn(Err("start_addr was null!"))
               ELSE IF ~exec.in.elf_ok THEN ExecReturn(Err("ElfFile::new failed"))
               ELSE IF exec.in.etype # "Executable"
                   THEN ExecReturn(Err("not a relocatable elf file"))
               ELSE [exec EXCEPT !.pos = "loop", !.i = 1]
    /\ UNCHANGED <<loader_vars, nano, dem, peer, fb>>

\* one round of `for prog in elf_file.program_iter()`
ExecProgramHeader ==
    /\ exec.pos = "loop"
    /\ exec.i <= Len(exec.in.phdrs)
    /\ LET prog == exec.in.phdrs[exec.i]
       IN  exec' = IF ProgramOutcome(prog) = "push"
                   THEN [exec EXCEPT !.i = exec.i + 1,
                                     !.prog_sects = Append(exec.prog_sects,
                                                           ElfProgramSegment(prog))]
                   ELSE ExecReturn(Err(ProgramOutcome(prog)))
    /\ UNCHANGED <<loader_vars, nano, dem, peer, fb>>

\* Ok((prog_sects, entry_point))
ExecFinish ==
    /\ exec.pos = "loop"
    /\ exec.i > Len(exec.in.phdrs)
    /\ exec' = ExecReturn([kind |-> "Ok", prog_sects |-> exec.prog_sects,
                           entry_point |-> exec.in.entry_point])
    /\ UNCHANGED <<loader_vars, nano, dem, peer, fb>>

ExecNext == ExecStart \/ ExecProgramHeader \/ ExecFinish

SpecExec == ExecInit /\ [][ExecNext]_vars

ExecValid(in) == ~in.start_null /\ in.elf_ok

\* C16: for an Executable object whose program headers are all LOAD with flags that
\* translate to a PRESENT entry, the call returns one segment per header, in order, with
\* the header's virtual address, memory size, translated flags and file offset, and the
\* entry point; for an object that is not Executable, or has a header that is not LOAD or
\* a LOAD header that is not readable, it returns an error and no segment list.
C16_ProgramLoader ==
    (exec.pos = "done" /\ ExecValid(exec.in)) =>
        IF /\ exec.in.etype = "Executable"
           /\ \A k \in 1..Len(exec.in.phdrs) :
                 exec.in.phdrs[k].typ = "Load" /\ "R" \in exec.in.phdrs[k].flags
        THEN /\ exec.result.kind = "Ok"
             /\ exec.result.entry_point = exec.in.entry_point
             /\ Len(exec.result.prog_sects) = Len(exec.in.phdrs)
             /\ \A k \in 1..Len(exec.in.phdrs) :
                   /\ exec.result.prog_sects[k].vma.start = exec.in.phdrs[k].virtual_addr
                   /\ exec.result.prog_sects[k].vma.size = exec.in.phdrs[k].mem_size
                   /\ exec.result.prog_sects[k].vma.flags
                        = from_elf_program_flags(exec.in.phdrs[k].flags)
                   /\ exec.result.prog_sects[k].offset = exec.in.phdrs[k].offset
        ELSE /\ exec.result.kind = "Err"
             /\ "prog_sects" \notin DOMAIN exec.result

\* two different headers were returned, in the order of the program header table
C16_Witness ==
    /\ exec.pos = "done"
    /\ exec.result.kind = "Ok"
    /\ Len(exec.result.prog_sects) = 2
    /\ exec.result.prog_sects[1].offset < exec.result.prog_sects[2].offset

(***************************************************************************)
(* parse_nano_core_symbols: the text of a symbol dump, line by line.       *)
(***************************************************************************)
\* lines of a symbol dump (bound of the model)
MaxLines == 3

HexDigits == DigitChars \o <<"a", "b", "c", "d", "e", "f">>

\* usize::from_str_radix(t, radix) for radix 10 and 16: the number, or -1 for Err
RECURSIVE from_str_radix(_, _)
from_str_radix(t, radix) ==
    IF t = <<>> THEN -1
    ELSE LET last == t[Len(t)]
             ds == {d \in 1..radix : HexDigits[d] = last}
             rest == IF Len(t) = 1 THEN 0 ELSE from_str_radix(SubSeq(t, 1, Len(t) - 1), radix)
         IN  IF ds = {} \/ rest = -1 THEN -1
             ELSE rest * radix + (CHOOSE d \in ds : TRUE) - 1

RECURSIVE trim_start(_)
trim_start(s) == IF s # <<>> /\ s[1] = " " THEN trim_start(StrFrom(s, 1)) ELSE s

RECURSIVE trim_end(_)
trim_end(s) ==
    IF s # <<>> /\ s[Len(s)] = " " THEN trim_end(SubSeq(s, 1, Len(s) - 1)) ELSE s

trim(s) == trim_end(trim_start(s))

contains(s, pat) == StrFind(s, pat) # -1

\* str::split_whitespace, collected
RECURSIVE split_whitespace(_)
split_whitespace(s) ==
    LET t == trim_start(s)
        sp == StrFind(t, <<" ">>)
    IN  IF t = <<>> THEN <<>>
        ELSE IF sp = -1 THEN <<t>>
        ELSE <<SubSeq(t, 1, sp)>> \o split_whitespace(StrFrom(t, sp))

\* get_section_index: the number between "[" and "]", or -1 for None
get_section_index(s) ==
    LET open == StrFind(s, <<"[">>)
        close == StrFind(s, <<"]">>)
    IN  IF open = -1 \/ close = -1 \/ open + 1 > close THEN -1
        ELSE from_str_radix(trim(SubSeq(s, open + 2, close)), 10)

PROGBITS == <<"P", "R", "O", "G", "B", "I", "T", "S">>
NOBITS == <<"N", "O", "B", "I", "T", "S">>
GLOBAL_ == <<"G", "L", "O", "B", "A", "L", " ">>
DOT_TEXT == <<".", "t", "e", "x", "t">>
DOT_DATA == <<".", "d", "a", "t", "a">>
DOT_RODATA == <<".", "r", "o", "d", "a", "t", "a">>
DOT_BSS == <<".", "b", "s", "s">>
NANO_CORE == <<"n", "a", "n", "o", "_", "c", "o", "r", "e">>

\* "[ 1] .text PROGBITS"
LineText ==
    <<"[", " ", "1", "]", " ", ".", "t", "e", "x", "t", " ", "P", "R", "O", "G", "B",
      "I", "T", "S">>

\* "[ 2] .rodata PROGBITS"
LineRodata ==
    <<"[", " ", "2", "]", " ", ".", "r", "o", "d", "a", "t", "a", " ", "P", "R", "O",
      "G", "B", "I", "T", "S">>

\* "[ 4] .bss NOBITS"
LineBss ==
    <<"[", " ", "4", "]", " ", ".", "b", "s", "s", " ", "N", "O", "B", "I", "T", "S">>

\* "7: 1a0 16 FUNC GLOBAL DEFAULT 1 _ZN3bar2h1E"
LineBar ==
    <<"7", ":", " ", "1", "a", "0", " ", "1", "6", " ", "F", "U", "N", "C", " ", "G",
      "L", "O", "B", "A", "L", " ", "D", "E", "F", "A", "U", "L", "T", " ", "1", " ",
      "_", "Z", "N", "3", "b", "a", "r", "2", "h", "1", "E">>

\* "  8: 2f 8 OBJECT GLOBAL HIDDEN 4 d"
LineD ==
    <<" ", " ", "8", ":", " ", "2", "f", " ", "8", " ", "O", "B", "J", "E", "C", "T",
      " ", "G", "L", "O", "B", "A", "L", " ", "H", "I", "D", "D", "E", "N", " ", "4",
      " ", "d">>

\* " 9: 30 12 OBJECT GLOBAL DEFAULT 2 r"
LineR ==
    <<" ", "9", ":", " ", "3", "0", " ", "1", "2", " ", "O", "B", "J", "E", "C", "T",
      " ", "G", "L", "O", "B", "A", "L", " ", "D", "E", "F", "A", "U", "L", "T", " ",
      "2", " ", "r">>

\* "5: 0 0 NOTYPE GLOBAL DEFAULT ABS e"
LineAbs ==
    <<"5", ":", " ", "0", " ", "0", " ", "N", "O", "T", "Y", "P", "E", " ", "G", "L",
      "O", "B", "A", "L", " ", "D", "E", "F", "A", "U", "L", "T", " ", "A", "B", "S",
      " ", "e">>

\* "6: 10 4 FUNC GLOBAL DEFAULT"
LineShort ==
    <<"6", ":", " ", "1", "0", " ", "4", " ", "F", "U", "N", "C", " ", "G", "L", "O",
      "B", "A", "L", " ", "D", "E", "F", "A", "U", "L", "T">>

\* "  "
LineEmpty ==
    <<" ", " ">>

DumpLines ==
    {LineText, LineRodata, LineBss, LineBar, LineD, LineR, LineAbs, LineShort, LineEmpty}

\* the bytes of the dump and the pages they are mapped in
NanoInput(lines, size, npages, utf8) ==
    [lines |-> lines, size |-> size, size_in_pages |-> npages, utf8_ok |-> utf8]

NanoInputs ==
    {NanoInput(ls, 200, 1, TRUE) : ls \in SeqsUpTo(MaxLines, DumpLines)}
    \cup {NanoInput(<<LineText, LineBar>>, PAGE_SIZE + 1, 1, TRUE),
          NanoInput(<<LineText, LineBar>>, PAGE_SIZE, 1, TRUE),
          NanoInput(<<LineText, LineBar>>, 200, 1, FALSE),
          NanoInput(<<>>, 1, 1, TRUE),
          NanoInput(<<>>, 0, 1, TRUE)}

NoneIdx == -1

NanoInit ==
    /\ LoaderIdle
    /\ exec = NoCall
    /\ dem = NoCall
    /\ peer = NoCall
    /\ fb = NoCall
    /\ \E in \in NanoInputs :
          nano = [pos |-> "start", in |-> in, i |-> 0, sections |-> <<>>, wrote |-> <<>>,
                  text_shndx |-> NoneIdx, data_shndx |-> NoneIdx,
                  rodata_shndx |-> NoneIdx, bss_shndx |-> NoneIdx, result |-> Running]

NanoReturn(res) == [nano EXCEPT !.pos = "done", !.result = res]

\* the size check, the null byte put at the end (at offset size - 1 from the start of the
\* pages), and the conversions to a str.  With size = 0 the byte is the one before the
\* pages: the store lands there or faults, and the empty slice is no CStr.
NanoStart ==
    /\ nano.pos = "start"
    /\ IF nano.in.size > nano.in.size_in_pages * PAGE_SIZE
       THEN nano' = NanoReturn(Err("parse_nano_core_symbols(): size exceeds the bounds of the given MappedPages!"))
       ELSE IF nano.in.size = 0
           THEN \/ nano' = NanoReturn([kind |-> "Fault", msg |-> "write outside the mapped pages"])
                \/ nano' = [NanoReturn(Err("FromBytesWithNulError occurred when casting nano_core symbol memory to CStr"))
                               EXCEPT !.wrote = <<nano.in.size - 1>>]
       ELSE IF ~nano.in.utf8_ok
           THEN nano' = [NanoReturn(Err("Utf8Error occurred when parsing nano_core symbols CStr"))
                            EXCEPT !.wrote = <<nano.in.size - 1>>]
       ELSE nano' = [nano EXCEPT !.pos = "lines", !.i = 1, !.wrote = <<nano.in.size - 1>>]
    /\ UNCHANGED <<loader_vars, exec, dem, peer, fb>>

\* the section indices after a line has been looked at
Discover(n, line) ==
    IF contains(line, DOT_TEXT) /\ contains(line, PROGBITS)
        THEN [n EXCEPT !.text_shndx = get_section_index(line)]
    ELSE IF contains(line, DOT_DATA) /\ contains(line, PROGBITS)
        THEN [n EXCEPT !.data_shndx = get_section_index(line)]
    ELSE IF contains(line, DOT_RODATA) /\ contains(line, PROGBITS)
        THEN [n EXCEPT !.rodata_shndx = get_section_index(line)]
    ELSE IF contains(line, DOT_BSS) /\ contains(line, NOBITS)
        THEN [n EXCEPT !.bss_shndx = get_section_index(line)]
    ELSE n

\* the kind of section a symbol of section sec_ndx becomes ("None": no section)
SectionTypeOf(n, sec_ndx) ==
    IF sec_ndx = n.text_shndx THEN "Text"
    ELSE IF sec_ndx = n.rodata_shndx THEN "Rodata"
    ELSE IF sec_ndx = n.data_shndx \/ sec_ndx = n.bss_shndx THEN "Data"
    ELSE "None"

\* what a line with "GLOBAL " does: an error, nothing, or a section to push
SymbolOutcome(n, line) ==
    LET tokens == split_whitespace(line)
        sec_vaddr == from_str_radix(tokens[2], 16)
        sec_size == from_str_radix(tokens[3], 10)
        sec_ndx == from_str_radix(tokens[7], 10)
        demangled == demangle_symbol(tokens[8])
    IN  IF Len(tokens) < 8
            THEN [kind |-> "err", msg |-> "parse_nano_core_symbols(): couldn't get column"]
        ELSE IF sec_vaddr = -1
            THEN [kind |-> "err",
                  msg |-> "parse_nano_core_symbols(): couldn't parse virtual address Value"]
        ELSE IF sec_size = -1
            THEN [kind |-> "err", msg |-> "parse_nano_core_symbols(): couldn't parse size"]
        ELSE IF sec_ndx = -1 \/ SectionTypeOf(n, sec_ndx) = "None" THEN [kind |-> "none"]
        ELSE [kind |-> "push",
              sec |-> [typ |-> SectionTypeOf(n, sec_ndx), abs_symbol |-> demangled.full,
                       hash |-> demangled.hash, virt_addr |-> sec_vaddr, size |-> sec_size,
                       global |-> TRUE]]

\* one round of `for (_line_num, line) in symbol_str.lines().enumerate()`
NanoLine ==
    /\ nano.pos = "lines"
    /\ nano.i <= Len(nano.in.lines)
    /\ LET line == trim(nano.in.lines[nano.i])
           n == Discover(nano, line)
           o == SymbolOutcome(n, line)
       IN  nano' = IF line = <<>> THEN [nano EXCEPT !.i = nano.i + 1]
                   ELSE IF ~contains(line, GLOBAL_) \/ o.kind = "none"
                       THEN [n EXCEPT !.i = nano.i + 1]
                   ELSE IF o.kind = "err" THEN NanoReturn(Err(o.msg))
                   ELSE [n EXCEPT !.i = nano.i + 1, !.sections = Append(n.sections, o.sec)]
    /\ UNCHANGED <<loader_vars, exec, dem, peer, fb>>

\* Ok(LoadedCrate { crate_name: "nano_core", sections, mapped_pages: vec![mapped_pages] })
NanoFinish ==
    /\ nano.pos = "lines"
    /\ nano.i > Len(nano.in.lines)
    /\ nano' = NanoReturn([kind |-> "Ok",
                           crate |-> [crate_name |-> NANO_CORE, sections |-> nano.sections,
                                      mapped_pages |-> <<"input">>]])
    /\ UNCHANGED <<loader_vars, exec, dem, peer, fb>>

NanoNext == NanoStart \/ NanoLine \/ NanoFinish

SpecNano == NanoInit /\ [][NanoNext]_vars

\* the index in brackets on the last of the lines 1..upto that contains name and type
\* (-1: there is no such line, or it holds no number)
DiscoveredIndex(lines, upto, name, type) ==
    LET hits == {k \in 1..upto : contains(lines[k], name) /\ contains(lines[k], type)}
    IN  IF hits = {} THEN -1
        ELSE get_section_index(lines[CHOOSE k \in hits : \A m \in hits : m <= k])

\* the kind of section for section index ndx, given the lines 1..upto
KindByIndex(lines, upto, ndx) ==
    IF ndx = -1 THEN "None"
    ELSE IF ndx = DiscoveredIndex(lines, upto, DOT_TEXT, PROGBITS) THEN "Text"
    ELSE IF ndx = DiscoveredIndex(lines, upto, DOT_RODATA, PROGBITS) THEN "Rodata"
    ELSE IF \/ ndx = DiscoveredIndex(lines, upto, DOT_DATA, PROGBITS)
            \/ ndx = DiscoveredIndex(lines, upto, DOT_BSS, NOBITS) THEN "Data"
    ELSE "None"

\* the sections the lines from k on stand for; a line is classified by the indices found
\* in the whole dump (whole = TRUE) or in the lines down to itself
RECURSIVE SectionsOfLines(_, _, _)
SectionsOfLines(lines, k, whole) ==
    IF k > Len(lines) THEN <<>>
    ELSE LET cols == split_whitespace(lines[k])
             upto == IF whole THEN Len(lines) ELSE k
         IN  (IF /\ contains(trim(lines[k]), GLOBAL_)
                 /\ KindByIndex(lines, upto, from_str_radix(cols[7], 10)) # "None"
              THEN <<[typ |-> KindByIndex(lines, upto, from_str_radix(cols[7], 10)),
                      virt_addr |-> from_str_radix(cols[2], 16),
                      size |-> from_str_radix(cols[3], 10),
                      global |-> TRUE]>>
              ELSE <<>>)
             \o SectionsOfLines(lines, k + 1, whole)

\* the returned crate is nano_core, owns the input region, and has these sections
NanoCrateIs(secs) ==
    /\ nano.result.crate.crate_name = NANO_CORE
    /\ nano.result.crate.mapped_pages = <<"input">>
    /\ Len(nano.result.crate.sections) = Len(secs)
    /\ \A k \in 1..Len(secs) :
          /\ nano.result.crate.sections[k].typ = secs[k].typ
          /\ nano.result.crate.sections[k].virt_addr = secs[k].virt_addr
          /\ nano.result.crate.sections[k].size = secs[k].size
          /\ nano.result.crate.sections[k].global = secs[k].global

NanoOk == nano.pos = "done" /\ nano.result.kind = "Ok"

\* C17 as stated: on success the crate is nano_core, owns the input region, and holds in
\* line order one section per GLOBAL line whose section-index column is a number equal to
\* the .text, .rodata or .data/.bss index discovered in the dump, with global = true, the
\* hex value as address and the decimal size.
C17_Original == NanoOk => NanoCrateIs(SectionsOfLines(nano.in.lines, 1, TRUE))

\* what does hold: each GLOBAL line is classified by the indices discovered on the lines
\* down to that line, so a symbol listed above its section's line gives no section
NanoSectionsByLinesAbove == NanoOk => NanoCrateIs(SectionsOfLines(nano.in.lines, 1, FALSE))

(***************************************************************************)
(* demangle_symbol, called on its own.                                     *)
(***************************************************************************)
\* path elements of a mangled symbol (bound of the model)
MaxElems == 3

\* length-prefixed path elements: bar, foo, a, the hashes h1 and h1f, and hg (no hash)
PathElems ==
    {<<"3", "b", "a", "r">>, <<"3", "f", "o", "o">>, <<"1", "a">>,
     <<"2", "h", "1">>, <<"3", "h", "1", "f">>, <<"2", "h", "g">>}

RECURSIVE Concat(_)
Concat(q) == IF q = <<>> THEN <<>> ELSE q[1] \o Concat(Tail(q))

\* _ZN<elements>E, and symbols that are not mangled
SymbolNames ==
    {<<"_", "Z", "N">> \o Concat(q) \o <<"E">> : q \in SeqsUpTo(MaxElems, PathElems)}
    \cup {FOO, <<"m", "a", "i", "n">>, <<"_", "Z", "N", "3", "b", "a", "r">>,
          <<"_", "Z", "N", "9", "b", "a", "r", "E">>, <<>>}

DemInit ==
    /\ LoaderIdle
    /\ exec = NoCall
    /\ nano = NoCall
    /\ peer = NoCall
    /\ fb = NoCall
    /\ \E s \in SymbolNames : dem = [pos |-> "start", s |-> s]

DemangleCall ==
    /\ dem.pos = "start"
    /\ dem' = [pos |-> "done", s |-> dem.s, ret |-> demangle_symbol(dem.s)]
    /\ UNCHANGED <<loader_vars, exec, nano, peer, fb>>

DemNext == DemangleCall

SpecDem == DemInit /\ [][DemNext]_vars

\* C18 as stated: with C the rendering without the hash and W the rendering with it,
\* demangle_symbol(s) returns canonical = C; when it returns a suffix h, C ++ "::" ++ h = W;
\* and when s was not mangled (W = C = s) the canonical is s and there is no suffix.
C18_DemanglerRoundTrip ==
    dem.pos = "done" =>
        /\ dem.ret.full = Render(dem.s, TRUE)
        /\ dem.ret.hash # NoneStr =>
              Render(dem.s, TRUE) \o <<":", ":">> \o dem.ret.hash = Render(dem.s, FALSE)
        /\ (Render(dem.s, FALSE) = dem.s /\ Render(dem.s, TRUE) = dem.s) =>
              dem.ret.full = dem.s /\ dem.ret.hash = NoneStr

\* what does hold: the round trip for every symbol whose canonical rendering is not empty
DemanglerRoundTripNonEmpty ==
    (dem.pos = "done" /\ Render(dem.s, TRUE) # <<>>) =>
        /\ dem.ret.full = Render(dem.s, TRUE)
        /\ dem.ret.hash # NoneStr =>
              Render(dem.s, TRUE) \o <<":", ":">> \o dem.ret.hash = Render(dem.s, FALSE)

(***************************************************************************)
(* A load of module B while module A, which defines kprint, is being       *)
(* loaded: all B sees of A is the moment kprint enters the symbol map.     *)
(***************************************************************************)
\* B's relocation entries: kprint (UNDEF), B's own bar, and ext (held by the map or not)
ConcEntries ==
    {Rela(0, Usize(0), 4, R_X86_64_64),
     Rela(4, MinusFour, 2, R_X86_64_PC32),
     Rela(8, Usize(8), 5, R_X86_64_32)}

\* the symbol map before A has published: without kprint
RegBeforeA == [RegFull EXCEPT ![KPRINT] = Absent]

ConcInputs ==
    {Input(GOOD_NAME, FALSE, TRUE, "Relocatable",
           <<NullSec, TextFoo, TextBar, DataD, NoteX, SymTabSec,
             RelaSec(<<".", "r", "e", "l", "a">> \o TEXT_PREFIX \o FOO, 1, es)>>,
           RelocSymtab, RegBeforeA, TRUE) :
        es \in SeqsUpTo(MaxEntries, ConcEntries) \ {<<>>}}

ConcInit ==
    /\ input \in ConcInputs
    /\ registry = input.registry
    /\ pc = "validate"
    /\ result = Running
    /\ global_sections = {}
    /\ bytecount = [c \in Classes |-> 0]
    /\ pages = [c \in Classes |-> NotYet]
    /\ frame_allocator = "free"
    /\ loaded_sections = <<>>
    /\ offsets = [c \in Classes |-> 0]
    /\ shndx = 0
    /\ rela = 0
    /\ mem = <<>>
    /\ applied = <<>>
    /\ crate = NoCrate
    /\ exec = NoCall
    /\ nano = NoCall
    /\ dem = NoCall
    /\ peer = NoCall
    /\ fb = NoCall

\* A's kprint section is inserted into the symbol map
PublishA ==
    /\ registry[KPRINT].st # "live"
    /\ registry' = [registry EXCEPT ![KPRINT] = Live(KprintAddr)]
    /\ UNCHANGED <<other_calls, input, pc, result, global_sections, bytecount, pages,
                   frame_allocator, loaded_sections, offsets, shndx, rela, mem, applied,
                   crate>>

ConcNext == Next \/ PublishA

SpecConc == ConcInit /\ [][ConcNext]_vars

\* B is at an entry whose symbol is the UNDEF kprint
AtKprintLookup ==
    /\ pc = "reloc"
    /\ rela >= 1
    /\ CurrentSym.shndx = SHN_UNDEF
    /\ demangle_symbol(CurrentSym.name).full = KPRINT

\* C19: B never waits for A: at an entry that refers to A's symbol B's step can be taken
\* whatever the symbol map holds; that step applies the entry when the symbol is in the
\* map at that moment, and otherwise returns the unresolved-symbol error.
C19_NoRendezvous ==
    /\ [](AtKprintLookup => ENABLED RelocEntry)
    /\ [][ (AtKprintLookup /\ registry' = registry)
           => IF registry[KPRINT].st = "live"
              THEN /\ Len(applied') = Len(applied) + 1
                   /\ applied'[Len(applied')].from = "get_symbol"
                   /\ result' = Running
              ELSE /\ result' = Err(Unresolved)
                   /\ pc' = "done"
                   /\ applied' = applied
         ]_vars

\* B failed on kprint although A published it before B returned: too late for the lookup
C19_Witness ==
    /\ pc = "done"
    /\ result = Err(Unresolved)
    /\ registry[KPRINT].st = "live"
    /\ applied = <<>>

\* the loop over the sections has ended without an error
PastPhaseD ==
    \/ pc \in {"reloc", "remap_text", "remap_rodata", "remap_data", "finish"}
    \/ Returned("Ok")

\* C20 as stated: once the call is past Phase D, the bytes planned for each class equal
\* the class's final running offset, the sum of round_up(size, align) over the sections
\* placed into the class.
C20_SizePlanningSoundness ==
    PastPhaseD => \A c \in Classes : bytecount[c] = offsets[c]

\* a PROGBITS/NOBITS header of size 0 whose name has one of the four prefixes
ZeroSizeSection(sec) ==
    /\ sec.typ \in {"ProgBits", "NoBits"}
    /\ sec.size = 0
    /\ NameClass(sec.name) # "none"

\* the class totals of the headers that are not such zero-size sections
PlanWithoutZeroSize(secs, c) ==
    PlanBytes(SelectSeq(secs, LAMBDA s : ~ZeroSizeSection(s)), 1, c)

\* C21 as stated: a section of size 0 with a .text., .rodata., .data. or .bss. name adds
\* nothing to a class total in Phase B, and the step of Phase D that looks at it writes no
\* byte and leaves every running offset as it was.
C21_ZeroSizeNotAllocated ==
    /\ [](pc \in {"lock", "place", "reloc", "finish"} =>
             \A c \in Classes : bytecount[c] = PlanWithoutZeroSize(input.secs, c))
    /\ [][ (pc = "place" /\ ZeroSizeSection(input.secs[shndx + 1]))
           => mem' = mem /\ offsets' = offsets ]_vars

\* what does hold of Phase B alone: zero-size sections add nothing to the class totals
ZeroSizeNotPlanned ==
    pc \in {"lock", "place", "reloc", "finish"} =>
        \A c \in Classes : bytecount[c] = PlanWithoutZeroSize(input.secs, c)

\* the step at the cursor inserts the LoadedSection of section shndx
RecordsSection == shndx \in DOMAIN loaded_sections' /\ shndx \notin DOMAIN loaded_sections

\* C22: for a zero-size section i with one of the four prefixes, the LoadedSection put
\* under key i has the size of header i+1, the running offset advances by that header's
\* size rounded up to that header's alignment, the bytes written are that header's data (as
\* many as its size, copied, or zeroed for a .bss. name), even when header i+1 has size
\* zero too; its kind, name and the flags that were checked are those of header i; a
\* relocation whose symbol has shndx = i takes that record's address; and if there is no
\* header i+1 the call returns an error.
C22_ZeroSizeIndirection ==
    /\ [][ (pc = "place" /\ ZeroSizeSection(input.secs[shndx + 1]) /\ RecordsSection)
           => LET hdr == input.secs[shndx + 1]
                  next == input.secs[shndx + 2]
                  c == NameClass(hdr.name)
                  rec == loaded_sections'[shndx]
              IN  /\ shndx + 2 <= Len(input.secs)
                  /\ rec.size = next.size
                  /\ offsets'[c] = offsets[c] + round_up_power_of_two(next.size, next.align)
                  /\ Len(mem') = Len(mem) + 1
                  /\ mem'[Len(mem')].len = next.size
                  /\ mem'[Len(mem')].off = offsets[c]
                  /\ mem'[Len(mem')].kind
                       = (IF starts_with(hdr.name, BSS_PREFIX) THEN "zero" ELSE "copy")
                  /\ DataVariant(next)
                       = (IF starts_with(hdr.name, BSS_PREFIX) THEN "Empty" ELSE "Undefined")
                  /\ rec.typ = SectionKind(c)
                  /\ rec.abs_symbol = demangle_symbol(StrFrom(hdr.name, PrefixLen(hdr.name))).full
                  /\ rec.virt_addr = wrapping_add(BaseOf(c), Usize(offsets[c]))
                  /\ hdr.flags \cap {SHF_ALLOC, SHF_WRITE, SHF_EXECINSTR} = RequiredFlags(hdr.name)
         ]_vars
    /\ [][ (pc = "place" /\ ZeroSizeSection(input.secs[shndx + 1])
                /\ shndx + 2 > Len(input.secs))
           => /\ result' = Err("couldn't get next section for a zero-sized section")
              /\ loaded_sections' = loaded_sections
              /\ mem' = mem
         ]_vars
    /\ [][ ( /\ pc = "reloc"
             /\ rela >= 1
             /\ CurrentRela.sym < Len(input.symtab)
             /\ CurrentSym.shndx \in DOMAIN loaded_sections
             /\ ZeroSizeSection(input.secs[CurrentSym.shndx + 1]) )
           => /\ WrittenFrom("loaded_sections", loaded_sections[CurrentSym.shndx].virt_addr)
              /\ result'.msg # Unresolved
         ]_vars

\* a load returned Ok after a relocation was applied whose symbol is in a zero-size
\* section, recorded with the size of the header after it
C22_Witness ==
    /\ Returned("Ok")
    /\ \E k \in 1..Len(applied) :
          LET i == AppliedSym(applied[k]).shndx
          IN  /\ i \in DOMAIN loaded_sections
              /\ ZeroSizeSection(input.secs[i + 1])
              /\ loaded_sections[i].size = input.secs[i + 2].size
              /\ loaded_sections[i].size > 0

\* a zero-size section whose next header is of size zero as well was recorded
ZeroAfterZeroRecorded ==
    \E i \in DOMAIN loaded_sections :
        /\ ZeroSizeSection(input.secs[i + 1])
        /\ input.secs[i + 2].size = 0

\* the call returned the error of a zero-size section that is the last header
ZeroSizeLastReturned ==
    /\ Returned("Err")
    /\ result.msg = "couldn't get next section for a zero-sized section"
    /\ ZeroSizeSection(input.secs[Len(input.secs)])

\* the symbol table has a function or object of Default visibility and Global binding in
\* section i
HasGlobalSymbol(i) ==
    \E m \in 1..Len(input.symtab) :
        /\ input.symtab[m].typ \in {"Func", "Object"}
        /\ input.symtab[m].vis = "Default"
        /\ input.symtab[m].bind = "Global"
        /\ input.symtab[m].shndx = i

\* C23: the LoadedSection recorded for section index i is global exactly when the symbol
\* table has an entry of type function or object, visibility Default and binding Global
\* with section index i; in a returned crate too.
C23_GlobalFlag ==
    /\ \A i \in DOMAIN loaded_sections : loaded_sections[i].global <=> HasGlobalSymbol(i)
    /\ Returned("Ok") =>
          \A k \in 1..Len(crate.sections) :
              crate.sections[k].global
                <=> HasGlobalSymbol(SortedSeq(DOMAIN loaded_sections)[k])

\* a returned crate has a global section and a section that only a Hidden global
\* function names
C23_Witness ==
    /\ Returned("Ok")
    /\ \E i \in DOMAIN loaded_sections : loaded_sections[i].global
    /\ \E i \in DOMAIN loaded_sections :
          /\ ~loaded_sections[i].global
          /\ \E m \in 1..Len(input.symtab) :
                /\ input.symtab[m].shndx = i
                /\ input.symtab[m].vis = "Hidden"
                /\ input.symtab[m].bind = "Global"
                /\ input.symtab[m].typ = "Func"

\* a returned crate has sections named by a NoType global symbol, by a Weak function and
\* by a Protected global object
OtherSymbolsReturned ==
    /\ Returned("Ok")
    /\ input \in GlobalFlagInputs
    /\ Cardinality(DOMAIN loaded_sections) = 3

(***************************************************************************)
(* Two loads at once and their locks: this call (B) in full, and another   *)
(* call (A) reduced to the locks it takes: the frame allocator's in its    *)
(* Phase C, and the symbol map's write lock when its sections are          *)
(* published.                                                              *)
(***************************************************************************)
LocksInit ==
    /\ input \in ConcInputs
    /\ registry = input.registry
    /\ pc = "validate"
    /\ result = Running
    /\ global_sections = {}
    /\ bytecount = [c \in Classes |-> 0]
    /\ pages = [c \in Classes |-> NotYet]
    /\ frame_allocator = "free"
    /\ loaded_sections = <<>>
    /\ offsets = [c \in Classes |-> 0]
    /\ shndx = 0
    /\ rela = 0
    /\ mem = <<>>
    /\ applied = <<>>
    /\ crate = NoCrate
    /\ exec = NoCall
    /\ nano = NoCall
    /\ dem = NoCall
    /\ peer = [pos |-> "start"]
    /\ fb = NoCall

\* A: FRAME_ALLOCATOR.try().ok_or(..)?.lock()
PeerLock ==
    /\ peer.pos = "start"
    /\ frame_allocator = "free"
    /\ frame_allocator' = "peer"
    /\ peer' = [pos |-> "phaseC"]
    /\ UNCHANGED <<loader_vars_but_lock, exec, nano, dem, fb>>

\* A: the end of the block that holds the guard
PeerUnlock ==
    /\ peer.pos = "phaseC"
    /\ frame_allocator' = "free"
    /\ peer' = [pos |-> "loading"]
    /\ UNCHANGED <<loader_vars_but_lock, exec, nano, dem, fb>>

\* A's caller takes the write lock of the symbol map
PeerWriteLock ==
    /\ peer.pos = "loading"
    /\ peer' = [pos |-> "publishing"]
    /\ UNCHANGED <<loader_vars, exec, nano, dem, fb>>

\* A's kprint section is inserted, and the write lock released
PeerPublish ==
    /\ peer.pos = "publishing"
    /\ registry' = [registry EXCEPT ![KPRINT] = Live(KprintAddr)]
    /\ peer' = [pos |-> "done"]
    /\ UNCHANGED <<input, pc, result, global_sections, bytecount, pages, frame_allocator,
                   loaded_sections, offsets, shndx, rela, mem, applied, crate, exec, nano,
                   dem, fb>>

\* B's next step asks the symbol map for a section (metadata::get_symbol)
AtRegistryRead ==
    /\ pc = "reloc"
    /\ rela >= 1
    /\ CurrentRela.sym < Len(input.symtab)
    /\ CurrentSym.shndx \notin UnsupportedShndx \cup {SHN_ABS}
    /\ ~(CurrentSym.shndx # SHN_UNDEF /\ CurrentSym.shndx \in DOMAIN loaded_sections)

\* a step of B; the read of the symbol map waits while the map is write-locked
LoadStep ==
    /\ ~(AtRegistryRead /\ peer.pos = "publishing")
    /\ Next

LocksNext == LoadStep \/ PeerLock \/ PeerUnlock \/ PeerWriteLock \/ PeerPublish

SpecLocks == LocksInit /\ [][LocksNext]_vars

PhaseC == {"alloc_text", "alloc_rodata", "alloc_data", "unlock"}

\* the steps B takes with the frame allocator's lock held
LoadPhaseC ==
    Allocate("text") \/ Allocate("rodata") \/ Allocate("data") \/ UnlockFrameAllocator

\* C24: B holds the frame allocator's lock exactly while it is in Phase C; no step that
\* copies or zeroes section bytes, applies a relocation, reads the symbol map or remaps a
\* region is taken with that lock held by B; the symbol map is written only by the call
\* that holds its write lock, never by B's load; and whenever one of the two loads waits
\* for a lock, the load that holds it can take its next step, so neither waits for the
\* other in a circle.
C24_LockDiscipline ==
    /\ [](frame_allocator = "held" <=> pc \in PhaseC)
    /\ [][ ( \/ mem' # mem
             \/ applied' # applied
             \/ AtRegistryRead
             \/ \E c \in Classes : pages[c].st = "Mapped" /\ pages'[c].flags # pages[c].flags )
           => frame_allocator # "held" /\ frame_allocator' # "held" ]_vars
    /\ [][registry' # registry => peer.pos = "publishing" /\ pc' = pc /\ result' = result]_vars
    /\ []((pc = "lock" /\ frame_allocator = "peer") => ENABLED PeerUnlock)
    /\ []((peer.pos = "start" /\ frame_allocator = "held") => ENABLED LoadPhaseC)
    /\ []((AtRegistryRead /\ peer.pos = "publishing") => ENABLED PeerPublish)

\* B waits at the lock of the frame allocator while A is in its Phase C
C24_Witness ==
    /\ pc = "lock"
    /\ frame_allocator = "peer"
    /\ peer.pos = "phaseC"

\* A waits at the lock of the frame allocator while B is in its Phase C
PeerWaits == peer.pos = "start" /\ frame_allocator = "held" /\ pc \in PhaseC

\* B waits to read the symbol map while A holds its write lock
LoadWaitsForRegistry == AtRegistryRead /\ peer.pos = "publishing"

\* 1, 2, 4, ..., PAGE_SIZE
PowersOfTwoUpToPage == {1, 2, 4, 8, 16, 32, 64, 128, 256, 512, 1024, 2048, PAGE_SIZE}

\* every PROGBITS/NOBITS header has a power-of-two alignment of at most a page
AlignmentsWellFormed ==
    \A k \in 1..Len(input.secs) :
        input.secs[k].typ \in {"ProgBits", "NoBits"} => input.secs[k].align \in PowersOfTwoUpToPage

\* C25 as stated: with page-aligned region bases and power-of-two alignments of at most a
\* page, the address of every recorded section is a multiple of its section's alignment.
C25_PlacedSectionsAligned ==
    AlignmentsWellFormed =>
        \A k \in DOMAIN loaded_sections :
            OffsetIn(ClassOf(loaded_sections[k]), loaded_sections[k].virt_addr)
                % input.secs[k + 1].align = 0

\* C26 as stated: an entry whose symbol-table index is not below the number of symbol
\* table entries makes the call return an error: nothing is written for it and the call
\* does not end in any other way.
C26_SymbolIndexChecked ==
    [][ (pc = "reloc" /\ rela >= 1 /\ CurrentRela.sym >= Len(input.symtab))
        => /\ result'.kind = "Err"
           /\ pc' = "done"
           /\ mem' = mem
           /\ applied' = applied ]_vars

\* C27 as stated: for a size of at most the length of the pages, the one byte written is
\* the null at offset size - 1, inside [0, size) from the start, and the call does not
\* fault; for a larger size the call returns an error and writes nothing.
C27_IngestorWriteBound ==
    nano.pos \in {"lines", "done"} =>
        IF nano.in.size > nano.in.size_in_pages * PAGE_SIZE
        THEN nano.wrote = <<>> /\ nano.result.kind = "Err"
        ELSE /\ nano.wrote = <<nano.in.size - 1>>
             /\ \A k \in 1..Len(nano.wrote) : 0 <= nano.wrote[k] /\ nano.wrote[k] < nano.in.size
             /\ nano.result.kind # "Fault"

\* what does hold: the bound for every size from 1 to the length of the pages
IngestorWriteBoundFromOne ==
    (nano.pos \in {"lines", "done"} /\ nano.in.size >= 1) =>
        IF nano.in.size > nano.in.size_in_pages * PAGE_SIZE
        THEN nano.wrote = <<>> /\ nano.result.kind = "Err"
        ELSE /\ nano.wrote = <<nano.in.size - 1>>
             /\ nano.in.size - 1 < nano.in.size_in_pages * PAGE_SIZE

(***************************************************************************)
(* frame_buffer_3d: the drawer behind FRAME_DRAWER, with its depth array   *)
(* and the pixel bytes of the buffer.  Every public function locks the     *)
(* drawer for the whole call, so a call is one step.                       *)
(***************************************************************************)
\* pixels in a row and rows of the screen (640 and 480 in the program), and the calls of
\* a run (bounds of the model)
ScreenCols == 2
ScreenRows == 2
MaxDraws == 2

FRAME_BUFFER_WIDTH == ScreenCols * 3
FRAME_BUFFER_HEIGHT == ScreenRows
BACKGROUD_COLOR == Usize(0)

\* core::usize::MAX
USIZE_MAX == [k \in 1..UsizeBytes |-> 255]

\* a < b, for two usize
ULess(a, b) ==
    \E k \in 1..UsizeBytes : a[k] < b[k] /\ \A j \in (k + 1)..UsizeBytes : a[j] = b[j]

\* a + b does not fit a usize: a panic where overflow is checked, a wrap where it is not
AddOverflows(a, b) == CarryInto(a, b, UsizeBytes + 1) > 0

\* `u as i32`: the low four bytes, in two's complement
as_i32(u) ==
    u[1] + 256 * u[2] + 65536 * u[3] + 16777216 * (IF u[4] >= 128 THEN u[4] - 256 ELSE u[4])

\* `i as usize` of an i32: sign-extended
as_usize(i) == IF i >= 0 THEN Usize(i) ELSE wrapping_sub(Usize(0), Usize(0 - i))

abs(i) == IF i < 0 THEN 0 - i ELSE i

\* i32 division: towards zero
i32_div(a, b) ==
    IF (a < 0) = (b < 0) THEN abs(a) \div abs(b) ELSE 0 - (abs(a) \div abs(b))

Stopped(d) == [d EXCEPT !.pos = "panicked"]

\* DepthAfter with the depth of a hidden point kept
DepthAfterKeepingZ(z, show) == z

\* the depth stored by a draw that passed the two tests
DepthAfter(z, show) == IF show THEN z ELSE USIZE_MAX

\* Drawer::draw_pixel
Drawer_draw_pixel(d, x, y, z, color, show) ==
    LET x2 == wrapping_add(x, x)
        x3 == wrapping_add(x2, x)
        x3p2 == wrapping_add(x3, Usize(2))
        overflow == AddOverflows(x, x) \/ AddOverflows(x2, x) \/ AddOverflows(x3, Usize(2))
        col == IF show THEN color ELSE BACKGROUD_COLOR
        xi == ToNat(x)
        yi == ToNat(y)
    IN  IF d.pos # "ready" THEN d
        ELSE IF overflow /\ d.overflow_checks THEN Stopped(d)
        ELSE IF \/ ~ULess(x3p2, Usize(FRAME_BUFFER_WIDTH))
                \/ ~ULess(y, Usize(FRAME_BUFFER_HEIGHT)) THEN d
        ELSE IF ~ULess(x, Usize(FRAME_BUFFER_WIDTH \div 3)) THEN Stopped(d)
        ELSE IF ULess(d.depth[yi][xi], z) THEN d
        ELSE [d EXCEPT !.depth[yi][xi] = DepthAfter(z, show),
                       !.chars[yi][xi * 3] = col[1],
                       !.chars[yi][xi * 3 + 1] = col[2],
                       !.chars[yi][xi * 3 + 2] = col[3],
                       !.shown[yi][xi] = IF show THEN z ELSE @]

\* Drawer::draw_points; a point is <<x, y, z, color>>
RECURSIVE draw_points(_, _, _)
draw_points(d, points, show) ==
    IF points = <<>> THEN d
    ELSE draw_points(Drawer_draw_pixel(d, points[1][1], points[1][2], points[1][3],
                                      points[1][4], show),
                     Tail(points), show)

\* Drawer::check_in_range: "yes", "no", or "panic" when x + 2 overflows and that is checked
check_in_range(d, x, y) ==
    IF AddOverflows(x, Usize(2)) /\ d.overflow_checks THEN "panic"
    ELSE IF /\ ULess(wrapping_add(x, Usize(2)), Usize(FRAME_BUFFER_WIDTH))
            /\ ULess(y, Usize(FRAME_BUFFER_HEIGHT)) THEN "yes"
    ELSE "no"

\* the <<x, y>> the two loops of draw_line go through, as i32 (for the coordinates of the
\* model no i32 operation overflows)
LineCoords(start_x, start_y, end_x, end_y) ==
    LET width == end_x - start_x
        height == end_y - start_y
    IN  IF abs(width) > abs(height)
        THEN LET s == IF start_x < end_x THEN start_x ELSE end_x
                 e == IF start_x < end_x THEN end_x ELSE start_x
             IN  [k \in 1..(e - s) |->
                    <<s + k - 1, i32_div((s + k - 1 - start_x) * height, width) + start_y>>]
        ELSE LET s == IF start_y < end_y THEN start_y ELSE end_y
                 e == IF start_y < end_y THEN end_y ELSE start_y
             IN  [k \in 1..(e - s) |->
                    <<i32_div((s + k - 1 - start_y) * width, height) + start_x, s + k - 1>>]

\* Drawer::draw_line
Drawer_draw_line(d, start_x, start_y, end_x, end_y, z, color, show) ==
    LET coords == LineCoords(start_x, start_y, end_x, end_y)
        checked == [k \in 1..Len(coords) |->
                       check_in_range(d, as_usize(coords[k][1]), as_usize(coords[k][2]))]
        kept == SelectSeq([k \in 1..Len(coords) |-> k], LAMBDA k : checked[k] = "yes")
        points == [k \in 1..Len(kept) |->
                      <<as_usize(coords[kept[k]][1]), as_usize(coords[kept[k]][2]), z, color>>]
    IN  IF \E k \in 1..Len(coords) : checked[k] = "panic" THEN Stopped(d)
        ELSE draw_points(d, points, show)

\* Drawer::draw_square
Drawer_draw_square(d, start_x, start_y, width, height, z, color, show) ==
    LET sum_x == wrapping_add(start_x, width)
        sum_y == wrapping_add(start_y, height)
        end_x == IF ULess(sum_x, Usize(FRAME_BUFFER_WIDTH)) THEN sum_x
                 ELSE Usize(FRAME_BUFFER_WIDTH)
        end_y == IF ULess(sum_y, Usize(FRAME_BUFFER_HEIGHT)) THEN sum_y
                 ELSE Usize(FRAME_BUFFER_HEIGHT)
        nx == IF ULess(start_x, end_x) THEN ToNat(end_x) - ToNat(start_x) ELSE 0
        ny == IF ULess(start_y, end_y) THEN ToNat(end_y) - ToNat(start_y) ELSE 0
        points == [k \in 1..(nx * ny) |->
                      <<Usize(ToNat(start_x) + ((k - 1) \div ny)),
                        Usize(ToNat(start_y) + ((k - 1) % ny)), z, color>>]
    IN  IF d.overflow_checks /\ (AddOverflows(start_x, width) \/ AddOverflows(start_y, height))
        THEN Stopped(d)
        ELSE draw_points(d, points, show)

\* two colours, 0x030201 and 0xFF00FE
ColorA == Usize(197121)
ColorB == <<254, 0, 255, 0, 0, 0, 0, 0>>

\* 0x5555_5555_5555_5556: three times this, plus 2, wraps round to 4
WrapX == <<86, 85, 85, 85, 85, 85, 85, 85>>

\* 0xFFFF_FFFF: -1 as an i32
MinusOne32 == <<255, 255, 255, 255, 0, 0, 0, 0>>

NoDraw ==
    [op |-> "none", x |-> Usize(0), y |-> Usize(0), z |-> Usize(0), color |-> Usize(0),
     show |-> TRUE]

\* FRAME_DRAWER as the program starts; overflow_checks is how the kernel was built
FbInit ==
    /\ LoaderIdle
    /\ exec = NoCall
    /\ nano = NoCall
    /\ dem = NoCall
    /\ peer = NoCall
    /\ \E oc \in BOOLEAN :
          fb = [pos |-> "ready", overflow_checks |-> oc, n |-> 0, call |-> NoDraw,
                depth |-> [y \in 0..(FRAME_BUFFER_HEIGHT - 1) |->
                             [x \in 0..(FRAME_BUFFER_WIDTH \div 3 - 1) |-> USIZE_MAX]],
                shown |-> [y \in 0..(FRAME_BUFFER_HEIGHT - 1) |->
                             [x \in 0..(FRAME_BUFFER_WIDTH \div 3 - 1) |-> <<>>]],
                chars |-> [y \in 0..(FRAME_BUFFER_HEIGHT - 1) |->
                             [b \in 0..(FRAME_BUFFER_WIDTH - 1) |-> 0]]]

\* the drawer after a call, with the call noted
Called(d, op, x, y, z, color, show) ==
    [d EXCEPT !.n = @ + 1,
              !.call = [op |-> op, x |-> x, y |-> y, z |-> z, color |-> color, show |-> show]]

CanDraw == fb.pos = "ready" /\ fb.n < MaxDraws

\* pub fn draw_pixel(x, y, color)
draw_pixel ==
    /\ CanDraw
    /\ \E x \in {Usize(0), Usize(ScreenCols)}, y \in {Usize(0), Usize(ScreenRows)} :
          fb' = Called(Drawer_draw_pixel(fb, x, y, Usize(0), ColorA, TRUE),
                       "draw_pixel", x, y, Usize(0), ColorA, TRUE)
    /\ UNCHANGED <<loader_vars, exec, nano, dem, peer>>

\* pub fn draw_pixel_3d(x, y, z, color, show)
draw_pixel_3d ==
    /\ CanDraw
    /\ \E x \in {Usize(0), WrapX}, z \in {Usize(1), Usize(2)}, show \in BOOLEAN :
          fb' = Called(Drawer_draw_pixel(fb, x, Usize(0), z, ColorB, show),
                       "draw_pixel_3d", x, Usize(0), z, ColorB, show)
    /\ UNCHANGED <<loader_vars, exec, nano, dem, peer>>

\* lines: along the first row, down the first column, the diagonal, the diagonal
\* backwards, and one that starts left of the screen
LineEnds ==
    {<<Usize(0), Usize(0), Usize(ScreenCols), Usize(0)>>,
     <<Usize(0), Usize(0), Usize(0), Usize(ScreenRows)>>,
     <<Usize(0), Usize(0), Usize(ScreenCols), Usize(ScreenRows)>>,
     <<Usize(ScreenCols - 1), Usize(ScreenRows - 1), Usize(0), Usize(0)>>,
     <<MinusOne32, Usize(0), Usize(1), Usize(0)>>}

\* pub fn draw_line(start_x, start_y, end_x, end_y, color)
draw_line ==
    /\ CanDraw
    /\ \E l \in LineEnds :
          fb' = Called(Drawer_draw_line(fb, as_i32(l[1]), as_i32(l[2]), as_i32(l[3]),
                                        as_i32(l[4]), Usize(0), ColorA, TRUE),
                       "draw_line", l[1], l[2], Usize(0), ColorA, TRUE)
    /\ UNCHANGED <<loader_vars, exec, nano, dem, peer>>

\* pub fn draw_line_3d(start_x, start_y, end_x, end_y, z, color, show)
draw_line_3d ==
    /\ CanDraw
    /\ \E show \in BOOLEAN :
          fb' = Called(Drawer_draw_line(fb, 0, 0, ScreenCols, 0, Usize(1), ColorB, show),
                       "draw_line_3d", Usize(0), Usize(0), Usize(1), ColorB, show)
    /\ UNCHANGED <<loader_vars, exec, nano, dem, peer>>

\* squares <<start_x, start_y, width, height>>: one pixel, more than the screen, the last
\* pixel, and one whose width overflows
Squares ==
    {<<Usize(0), Usize(0), Usize(1), Usize(1)>>,
     <<Usize(0), Usize(0), Usize(ScreenCols + 1), Usize(ScreenRows + 1)>>,
     <<Usize(ScreenCols - 1), Usize(ScreenRows - 1), Usize(1), Usize(1)>>,
     <<Usize(1), Usize(0), USIZE_MAX, Usize(1)>>}

\* pub fn draw_square(start_x, start_y, width, height, color)
draw_square ==
    /\ CanDraw
    /\ \E q \in Squares :
          fb' = Called(Drawer_draw_square(fb, q[1], q[2], q[3], q[4], Usize(0), ColorA, TRUE),
                       "draw_square", q[1], q[2], Usize(0), ColorA, TRUE)
    /\ UNCHANGED <<loader_vars, exec, nano, dem, peer>>

\* pub fn draw_square_3d(start_x, start_y, width, height, z, color, show)
draw_square_3d ==
    /\ CanDraw
    /\ \E z \in {Usize(1), Usize(2)}, show \in BOOLEAN :
          fb' = Called(Drawer_draw_square(fb, Usize(0), Usize(0), Usize(ScreenCols),
                                          Usize(ScreenRows), z, ColorB, show),
                       "draw_square_3d", Usize(0), Usize(0), z, ColorB, show)
    /\ UNCHANGED <<loader_vars, exec, nano, dem, peer>>

FbNext ==
    \/ draw_pixel
    \/ draw_pixel_3d
    \/ draw_line
    \/ draw_line_3d
    \/ draw_square
    \/ draw_square_3d

SpecFb == FbInit /\ [][FbNext]_vars

Rows == 0..(FRAME_BUFFER_HEIGHT - 1)
Cols == 0..(FRAME_BUFFER_WIDTH \div 3 - 1)

\* the depth and the three bytes of pixel (x, y)
PixelState(d, x, y) ==
    <<d.depth[y][x], d.chars[y][3 * x], d.chars[y][3 * x + 1], d.chars[y][3 * x + 2]>>

\* the pixel (x, y) after a draw of depth z that was accepted
Drawn(z, color, show) ==
    IF show THEN <<z, color[1], color[2], color[3]>> ELSE <<USIZE_MAX, 0, 0, 0>>

\* x * 3 + 2 < FRAME_BUFFER_WIDTH and y < FRAME_BUFFER_HEIGHT, as numbers
OnScreen(x, y) ==
    /\ ULess(x, Usize(FRAME_BUFFER_WIDTH \div 3))
    /\ ULess(y, Usize(FRAME_BUFFER_HEIGHT))

\* C28: after any sequence of calls the depth stored for a pixel is usize::MAX or the z of
\* the latest accepted draw with show = true at that pixel; the arrays keep their bounds;
\* a call changes a pixel only if its z is not above the stored depth, and then to the z
\* (or usize::MAX when show is false) and the three colour bytes of that pixel; and a
\* draw_pixel or draw_pixel_3d that is off the screen or has z above the stored depth
\* changes no depth and no byte, while an accepted one changes that one pixel only.
C28_FrameBufferDepth ==
    /\ [](\A y \in Rows : \A x \in Cols : fb.depth[y][x] \in {USIZE_MAX, fb.shown[y][x]})
    /\ [](/\ DOMAIN fb.depth = Rows
          /\ DOMAIN fb.chars = Rows
          /\ \A y \in Rows : /\ DOMAIN fb.depth[y] = Cols
                             /\ DOMAIN fb.chars[y] = 0..(FRAME_BUFFER_WIDTH - 1))
    /\ [][ \A y \in Rows : \A x \in Cols :
              \/ PixelState(fb', x, y) = PixelState(fb, x, y)
              \/ /\ ~ULess(fb.depth[y][x], fb'.call.z)
                 /\ PixelState(fb', x, y) = Drawn(fb'.call.z, fb'.call.color, fb'.call.show)
         ]_vars
    /\ [][ fb'.call.op \in {"draw_pixel", "draw_pixel_3d"} =>
              LET c == fb'.call
              IN  IF ~OnScreen(c.x, c.y) \/ ULess(fb.depth[ToNat(c.y)][ToNat(c.x)], c.z)
                  THEN fb'.depth = fb.depth /\ fb'.chars = fb.chars
                  ELSE /\ PixelState(fb', ToNat(c.x), ToNat(c.y)) = Drawn(c.z, c.color, c.show)
                       /\ fb'.shown[ToNat(c.y)][ToNat(c.x)]
                            = (IF c.show THEN c.z ELSE fb.shown[ToNat(c.y)][ToNat(c.x)])
                       /\ \A y \in Rows : \A x \in Cols :
                             (x # ToNat(c.x) \/ y # ToNat(c.y)) =>
                                 PixelState(fb', x, y) = PixelState(fb, x, y)
         ]_vars

\* a draw_pixel_3d at a pixel drawn before was turned down for its depth
C28_Witness ==
    /\ fb.n = 2
    /\ fb.call.op = "draw_pixel_3d"
    /\ OnScreen(fb.call.x, fb.call.y)
    /\ ULess(fb.depth[ToNat(fb.call.y)][ToNat(fb.call.x)], fb.call.z)
    /\ fb.shown[ToNat(fb.call.y)][ToNat(fb.call.x)]
         = fb.depth[ToNat(fb.call.y)][ToNat(fb.call.x)]

\* a pixel was hidden again: its depth is usize::MAX after a draw with show = true
HiddenAgain ==
    \E y \in Rows : \E x \in Cols : fb.depth[y][x] = USIZE_MAX /\ fb.shown[y][x] # <<>>

\* a call stopped the kernel
DrawPanicked == fb.pos = "panicked"

====
